---- MODULE Spec2Model ----
(***************************************************************************)
(* Model of the G-Core external-dns webhook provider                       *)
(* (src/gcoreprovider/gcore.go) and of the two client calls of the DNS SDK *)
(* it drives (AddZoneRRSet, DeleteRRSetRecord).                            *)
(*                                                                         *)
(* Strings are tuples of one-character strings, so that strings.Trim,      *)
(* strings.Split and strings.Join are computed as the Go code computes     *)
(* them.                                                                   *)
(***************************************************************************)
EXTENDS Integers, Sequences, FiniteSets, TLC

VARIABLES
    \* ---- zone resolver applied to one name (zoneFromDNSNameGetter) ----
    zName,      \* the record name handed to the resolver
    zZones,     \* the zone names the listing returned
    zResult,    \* what the resolver returned
    zpc         \* "input" | "resolved"

zoneVars == <<zName, zZones, zResult, zpc>>

VARIABLES
    \* ---- one ApplyChanges pass ----
    dryRun,     \* DnsProvider.dryRun
    changes,    \* the plan.Changes handed in
    remote,     \* the RRSets the DNS service holds: key |-> [ttl, records]
    initial,    \* the value of remote when the pass started (never changed)
    pc,         \* where the goroutine running ApplyChanges is
    idx,        \* the index of the loop it is in
    listing,    \* outcome of the zone listing: "none" | "ok" | "failed"
    filters,    \* existingZones.Filters, as GetDomainFilter returned them
    tasks,      \* the goroutines started with gr1.Go and gr2.Go
    applied,    \* appliedChanges: created, deleted, updated
    result,     \* what ApplyChanges returned: "none" | "ok" | "err"
    ctxDone,    \* ctx is done: cancelled or timed out
    failures,   \* remote requests that have failed for a transient reason
    firstErr,   \* per group, the goroutine whose error the group kept (0: none)
    errOut      \* the error ApplyChanges returned: <<>> or [stage, msg, cause]

applyVars == <<dryRun, changes, remote, initial, pc, idx, listing, filters,
               tasks, applied, result, ctxDone, failures, firstErr, errOut>>

VARIABLES
    \* ---- content differ applied to one input (unexistingTargets) ----
    dExisting,  \* the endpoint existing
    dCompare,   \* the list toCompare
    dFlag,      \* diffFromExisting
    dResult,    \* the targets returned
    dpc         \* "idle" | "input" | "returned"

diffVars == <<dExisting, dCompare, dFlag, dResult, dpc>>

VARIABLES
    \* ---- the timeout guard of one pass (ctxWithMyTimeout) ----
    gRoot,      \* rootCtx: "live" | "canceled" | "deadline exceeded"
    gDeadline,  \* the deadline of rootCtx in seconds: <<>> (none) or <<d>>
    gCtx,       \* ctx: "live" | "canceled" | "deadline exceeded"
    gBy,        \* what ended ctx: "none" | "guard" | "pass" | "timer"
    gWatch,     \* the goroutine of the guard: "idle" | "select" | "exited"
    gNow        \* seconds since ctxWithMyTimeout was called

guardVars == <<gRoot, gDeadline, gCtx, gBy, gWatch, gNow>>

VARIABLES
    \* ---- one call of Records, with its AllZonesWithRecords ----
    fRemote,    \* the zones, with their records, the service holds
    fpc,        \* "idle" | "start" | "list" | "spawn" | "wait" | "convert" | "done"
    fZones,     \* the slice zones of AllZonesWithRecords
    fIdx,       \* the index of its loop
    fFetch,     \* per zone, its goroutine: "none" | "running" | "ok" | "failed"
    fErr,       \* the first error of the group: <<>> or <<name of the zone>>
    fOut,       \* what AllZonesWithRecords returned: [zones, failed, names]
    fResult,    \* the endpoints Records returned
    fReturn     \* what Records returned: "none" | "ok" | "err"

fetchVars == <<fRemote, fpc, fZones, fIdx, fFetch, fErr, fOut, fResult, fReturn>>

VARIABLES
    \* ---- one call of NewProvider ----
    nApiUrl,    \* the argument apiUrl
    nApiKey,    \* the argument apiKey
    nDryRun,    \* the argument dryRun
    nProvider,  \* the *DnsProvider returned: <<>> (nil) or <<provider>>
    nErr,       \* the error returned: "none" | "env" | "url"
    npc         \* "idle" | "input" | "returned"

providerVars == <<nApiUrl, nApiKey, nDryRun, nProvider, nErr, npc>>

VARIABLES
    \* ---- one value through SetContent and back through ContentToString ----
    cType,      \* the record type
    cValue,     \* the target
    cContent,   \* ResourceRecord.Content
    cString,    \* what ContentToString returned
    cpc         \* "idle" | "input" | "set" | "read"

contentVars == <<cType, cValue, cContent, cString, cpc>>

VARIABLES
    \* ---- one request to POST /records ----
    hContentType, \* the Content-Type header of the request, <<>> when absent
    hAccept,      \* the Accept header of the request, <<>> when absent
    hBody,        \* the body: whether it decodes, and to which plan.Changes
    hStatus,      \* the status written to the response, 0 before
    hpc           \* "idle" | "check" | "decode" | "apply" | "done"

handlerVars == <<hContentType, hAccept, hBody, hStatus, hpc>>

vars == <<zoneVars, applyVars, diffVars, guardVars, fetchVars, providerVars,
          contentVars, handlerVars>>

\* What a step of one part of the program leaves alone.
exceptApply == <<zoneVars, diffVars, guardVars, fetchVars, providerVars,
    contentVars, handlerVars>>
exceptZone == <<applyVars, diffVars, guardVars, fetchVars, providerVars,
    contentVars, handlerVars>>
exceptDiff == <<zoneVars, applyVars, guardVars, fetchVars, providerVars,
    contentVars, handlerVars>>
exceptGuard == <<zoneVars, applyVars, diffVars, fetchVars, providerVars,
    contentVars, handlerVars>>
exceptFetch == <<zoneVars, applyVars, diffVars, guardVars, providerVars,
    contentVars, handlerVars>>
exceptProvider == <<zoneVars, applyVars, diffVars, guardVars, fetchVars,
    contentVars, handlerVars>>
exceptContent == <<zoneVars, applyVars, diffVars, guardVars, fetchVars,
    providerVars, handlerVars>>
exceptHandler == <<zoneVars, diffVars, guardVars, fetchVars, providerVars,
    contentVars>>

(***************************************************************************)
(* Strings                                                                 *)
(***************************************************************************)
Dot == "."
Empty == <<>>

Range(s) == {s[i] : i \in 1..Len(s)}

RECURSIVE TrimLeft(_)
TrimLeft(s) ==
    IF s # <<>> /\ Head(s) = Dot THEN TrimLeft(Tail(s)) ELSE s

RECURSIVE TrimRight(_)
TrimRight(s) ==
    IF s # <<>> /\ s[Len(s)] = Dot THEN TrimRight(SubSeq(s, 1, Len(s) - 1)) ELSE s

\* strings.Trim(s, "."): every leading and every trailing dot is removed.
Trim(s) == TrimRight(TrimLeft(s))

\* strings.TrimSuffix(s, "."): at most one trailing dot is removed.
TrimSuffix(s) ==
    IF s # <<>> /\ s[Len(s)] = Dot THEN SubSeq(s, 1, Len(s) - 1) ELSE s

\* strings.Split(s, "."): the pieces between the dots, empty pieces kept.
RECURSIVE Split(_)
Split(s) ==
    IF \A i \in 1..Len(s) : s[i] # Dot
    THEN <<s>>
    ELSE LET i == CHOOSE k \in 1..Len(s) :
                      s[k] = Dot /\ \A j \in 1..(k - 1) : s[j] # Dot
         IN  <<SubSeq(s, 1, i - 1)>> \o Split(SubSeq(s, i + 1, Len(s)))

\* strings.Join(parts, ".")
RECURSIVE Join(_)
Join(parts) ==
    IF parts = <<>> THEN <<>>
    ELSE IF Len(parts) = 1 THEN parts[1]
    ELSE parts[1] \o <<Dot>> \o Join(Tail(parts))

(***************************************************************************)
(* Zone resolver                                                           *)
(***************************************************************************)
\* The suffixes of the trimmed name with the last part alone kept.
extractAllZonesWithTLD(dnsName) ==
    LET parts == Split(Trim(dnsName))
    IN  [i \in 1..Len(parts) |-> Join(SubSeq(parts, i, Len(parts)))]

\* extractAllZones: the suffixes of the trimmed name, longest first, the
\* suffix made of the last part alone left out.
extractAllZones(dnsName) ==
    LET parts == Split(Trim(dnsName))
    IN  IF Len(parts) < 2 THEN <<>>
        ELSE [i \in 1..(Len(parts) - 1) |-> Join(SubSeq(parts, i, Len(parts)))]

\* endpoint.NewDomainFilter as GetDomainFilter calls it: every filter loses
\* one trailing dot (the names are lower case and hold no blank already).
NewDomainFilter(domains) == [i \in 1..Len(domains) |-> TrimSuffix(domains[i])]

\* GetDomainFilter on a successful listing: z.Name and "."+z.Name per zone.
RECURSIVE DomainsOf(_)
DomainsOf(zs) ==
    IF zs = <<>> THEN <<>>
    ELSE <<Head(zs), <<Dot>> \o Head(zs)>> \o DomainsOf(Tail(zs))

GetDomainFilter(zs, listOk) ==
    IF listOk THEN NewDomainFilter(DomainsOf(zs)) ELSE <<>>

\* The search map of zoneFromDNSNameGetter: filter |-> strings.Trim(filter, ".")
SearchMap(fs) == [f \in Range(fs) |-> Trim(f)]

\* The closure zoneFromDNSNameGetter returns.
RECURSIVE FirstKnown(_, _)
FirstKnown(search, cands) ==
    IF cands = <<>> THEN Empty
    ELSE IF Head(cands) \in DOMAIN search THEN search[Head(cands)]
    ELSE FirstKnown(search, Tail(cands))

extractZone(fs, name) == FirstKnown(SearchMap(fs), extractAllZones(name))

(***************************************************************************)
(* The remote service and the content of a resource record                 *)
(***************************************************************************)
Blank == " "

\* strings.Split(s, sep) for a separator of one character.
RECURSIVE SplitOn(_, _)
SplitOn(s, sep) ==
    IF \A i \in 1..Len(s) : s[i] # sep
    THEN <<s>>
    ELSE LET i == CHOOSE k \in 1..Len(s) :
                      s[k] = sep /\ \A j \in 1..(k - 1) : s[j] # sep
         IN  <<SubSeq(s, 1, i - 1)>> \o SplitOn(SubSeq(s, i + 1, Len(s)), sep)

\* strings.Join(parts, sep)
RECURSIVE JoinWith(_, _)
JoinWith(parts, sep) ==
    IF parts = <<>> THEN <<>>
    ELSE IF Len(parts) = 1 THEN parts[1]
    ELSE parts[1] \o <<sep>> \o JoinWith(Tail(parts), sep)

\* An element of a content is held as the text fmt.Sprint gives for it: a
\* string as it is, an integer as its decimal digits, nil as "<nil>".
Digits == {"0", "1"}
NilText == <<"<", "n", "i", "l", ">">>

RECURSIVE TrimZeros(_)
TrimZeros(x) ==
    IF Len(x) > 1 /\ Head(x) = "0" THEN TrimZeros(Tail(x)) ELSE x

\* strconv.ParseInt(x, 10, 64) with its error dropped: the number, or 0 for
\* a text that is not a number.
ParseInt(x) ==
    IF x = <<>> \/ \E i \in 1..Len(x) : x[i] \notin Digits
    THEN <<"0">>
    ELSE TrimZeros(x)

\* RecordTypeMX.ToContent
ToContentMX(val) ==
    LET parts == SplitOn(val, Blank)
    IN  IF Len(parts) # 2 THEN <<>>
        ELSE <<ParseInt(parts[1]), parts[2]>>

\* RecordTypeCAA.ToContent: the content has one element per part, of which
\* the first three are set.
ToContentCAA(val) ==
    LET parts == SplitOn(val, Blank)
    IN  IF Len(parts) < 3 THEN <<>>
        ELSE [i \in 1..Len(parts) |->
                 CASE i = 1 -> ParseInt(parts[1])
                   [] i = 2 -> parts[2]
                   [] i = 3 -> JoinWith(SubSeq(parts, 3, Len(parts)), Blank)
                   [] OTHER -> NilText]

\* RecordTypeSRV.ToContent
ToContentSRV(val) ==
    LET parts == SplitOn(val, Blank)
    IN  IF Len(parts) # 4 THEN <<>>
        ELSE <<ParseInt(parts[1]), ParseInt(parts[2]), ParseInt(parts[3]),
               parts[4]>>

\* RecordTypeAny.ToContent
ToContentAny(val) == <<val>>

\* ContentFromValue with ToRecordType, for the record types MX, CAA and SRV
\* and those that fall to RecordTypeAny.
ContentFromValue(recordType, val) ==
    CASE recordType = "MX" -> ToContentMX(val)
      [] recordType = "CAA" -> ToContentCAA(val)
      [] recordType = "SRV" -> ToContentSRV(val)
      [] OTHER -> ToContentAny(val)

\* ResourceRecord.SetContent
SetContent(recordType, value) == ContentFromValue(recordType, value)

\* ResourceRecord.ContentToString: the elements, none of which is a list
\* here, joined by a blank.
ContentToString(content) == JoinWith(content, Blank)

\* No RRSet under a key: the lookup answers 404.
Absent == [ttl |-> 0, records |-> <<>>]

\* path.Join("/v2/zones", zone, name, recordType), zone and name trimmed.
KeyOf(zone, name, recordType) == <<Trim(zone), Trim(name), recordType>>

(***************************************************************************)
(* Content differ                                                          *)
(***************************************************************************)
\* A pairing that goes by the record type alone.
MatchIndexByType(existing, toCompare) ==
    LET hits == {i \in 1..Len(toCompare) :
                    toCompare[i].RecordType = existing.RecordType}
    IN  IF hits = {} THEN 0
        ELSE CHOOSE i \in hits : \A j \in hits : i <= j

\* The position of the first entry of toCompare that has the record type
\* and the name of existing; 0 when there is none.
MatchIndex(existing, toCompare) ==
    LET hits == {i \in 1..Len(toCompare) :
                    /\ toCompare[i].RecordType = existing.RecordType
                    /\ toCompare[i].DNSName = existing.DNSName}
    IN  IF hits = {} THEN 0
        ELSE CHOOSE i \in hits : \A j \in hits : i <= j

\* The targets of from that are not among the targets of other, in order.
NotIn(from, other) == SelectSeq(from, LAMBDA x : x \notin Range(other))

\* A differ that compares the two target lists position by position.
unexistingTargetsByPosition(existing, toCompare, diffFromExisting) ==
    LET m == MatchIndex(existing, toCompare)
        from == IF diffFromExisting THEN existing.Targets ELSE toCompare[m].Targets
        other == IF diffFromExisting THEN toCompare[m].Targets ELSE existing.Targets
        keep == {i \in 1..Len(from) : i > Len(other) \/ other[i] # from[i]}
    IN  IF m = 0 THEN <<>>
        ELSE SelectSeq(from, LAMBDA x : \E i \in keep : from[i] = x)

\* A differ that takes the two directions for each other.
unexistingTargetsSwapped(existing, toCompare, diffFromExisting) ==
    LET m == MatchIndex(existing, toCompare)
    IN  IF m = 0 THEN <<>>
        ELSE IF diffFromExisting
             THEN NotIn(toCompare[m].Targets, existing.Targets)
             ELSE NotIn(existing.Targets, toCompare[m].Targets)

\* A differ that takes an entry without counterpart for a new one.
unexistingTargetsAllWhenUnmatched(existing, toCompare, diffFromExisting) ==
    LET m == MatchIndex(existing, toCompare)
    IN  IF m = 0 THEN (IF diffFromExisting THEN existing.Targets ELSE <<>>)
        ELSE IF diffFromExisting
             THEN NotIn(existing.Targets, toCompare[m].Targets)
             ELSE NotIn(toCompare[m].Targets, existing.Targets)

unexistingTargets(existing, toCompare, diffFromExisting) ==
    LET m == MatchIndex(existing, toCompare)
    IN  IF m = 0 THEN <<>>
        ELSE IF diffFromExisting
             THEN NotIn(existing.Targets, toCompare[m].Targets)
             ELSE NotIn(toCompare[m].Targets, existing.Targets)

(***************************************************************************)
(* ApplyChanges: the goroutine that runs it                                *)
(***************************************************************************)
MaxFail == 1

ZoneXY == <<"x", ".", "y">>
NameIn == <<"a", ".", "x", ".", "y">>
NameOut == <<"a", ".", "y">>

\* The zones the service lists.
RemoteZones == <<ZoneXY>>

\* A test of the lengths of the lists alone.
HasChangesByLength(c) ==
    Len(c.Create) > 0 \/ Len(c.Delete) > 0 \/ Len(c.UpdateNew) > 0

\* plan.Changes.HasChanges
HasChanges(c) ==
    Len(c.Create) > 0 \/ Len(c.Delete) > 0 \/ c.UpdateNew # c.UpdateOld

\* The order of the loops and waits in the body of ApplyChanges.
PhaseOrder == <<"teardown", "delete", "create", "wait2", "updateAdd", "wait1">>

LoopList(c, phase) ==
    CASE phase = "teardown" -> c.UpdateNew
      [] phase = "delete" -> c.Delete
      [] phase = "create" -> c.Create
      [] phase = "updateAdd" -> c.UpdateNew
      [] OTHER -> <<>>

IsLoop(phase) == phase \in {"teardown", "delete", "create", "updateAdd"}

PhaseIndex(phase) == CHOOSE k \in 1..Len(PhaseOrder) : PhaseOrder[k] = phase

\* Where control is when it reaches the k-th phase: a loop over an empty
\* list is passed over.
RECURSIVE Enter(_, _)
Enter(c, k) ==
    IF IsLoop(PhaseOrder[k]) /\ LoopList(c, PhaseOrder[k]) = <<>>
    THEN Enter(c, k + 1)
    ELSE <<PhaseOrder[k], 1>>

\* Where control is after iteration i of the loop of a phase.
After(c, phase, i) ==
    IF i < Len(LoopList(c, phase))
    THEN <<phase, i + 1>>
    ELSE Enter(c, PhaseIndex(phase) + 1)

\* The counter is incremented once per content, before dryRun is looked at.
CountedLiveOnly(dry, contents) == IF dry THEN 0 ELSE Len(contents)

Counted(dry, contents) == Len(contents)

\* In dry-run every content is logged and left out of recordValues.
RecordValues(dry, contents) == IF dry THEN <<>> ELSE contents

\* rr.SetContent(recordType, content) for every content.
ResourceRecords(recordType, contents) ==
    [i \in 1..Len(contents) |-> SetContent(recordType, contents[i])]

\* errMsg: one message per content that was collected, with the words of
\* the loop, the name, the type and the content.
ErrMsg(words, e, contents) ==
    [i \in 1..Len(contents) |-> <<words, e.DNSName, e.RecordType, contents[i]>>]

Words(kind) ==
    CASE kind = "teardown" -> "update old"
      [] kind = "delete" -> "delete"
      [] kind = "create" -> "create"
      [] OTHER -> "update new"

\* The closure handed to gr.Go: contents are the targets collected, args
\* what the client call is given for them.
NewTask(group, kind, entry, zone, e, contents, args) ==
    [group |-> group, kind |-> kind, entry |-> entry,
     key |-> KeyOf(zone, e.DNSName, e.RecordType),
     args |-> args, ttl |-> e.RecordTTL,
     msg |-> ErrMsg(Words(kind), e, contents),
     pc |-> "spawned", op |-> "none", body |-> Absent, err |-> FALSE,
     cause |-> "none"]

GroupTasks(g) == {i \in 1..Len(tasks) : tasks[i].group = g}

\* gr.Wait() returns once every goroutine of the group has returned.
WaitReturnsAtOnce(g) == TRUE

WaitReturns(g) == \A i \in GroupTasks(g) : tasks[i].pc = "done"

\* gr.Wait() returns the first non-nil error of the group.
WaitErrorDropped(g) == FALSE

WaitError(g) == \E i \in GroupTasks(g) : tasks[i].pc = "done" /\ tasks[i].err

\* A create loop that leaves out the TXT entries alone.
CreateSkippedForTypeOnly(zone, c) == c.RecordType = "TXT"

\* The create loop leaves out an entry without zone and every TXT entry.
CreateSkipped(zone, c) == zone = Empty \/ c.RecordType = "TXT"

\* errSafeWrap(strings.Join(errMsg, "; "), err) for an err that is not nil.
errSafeWrap(msg, err) == [msg |-> msg, cause |-> err]

\* The error gr.Wait() returns: that of the goroutine that was first to
\* return one.
GroupError(g) ==
    LET t == tasks[firstErr[g]] IN errSafeWrap(t.msg, t.cause)

\* fmt.Errorf("%s: apply changes: %w", ProviderName, err)
ApplyError(g) == [stage |-> "gcore: apply changes", err |-> GroupError(g)]

Goto(pos) == pc' = pos[1] /\ idx' = pos[2]

\* return nil at the top: nothing to do.
ReturnNoChanges ==
    /\ pc = "start"
    /\ ~HasChanges(changes)
    /\ pc' = "done"
    /\ result' = "ok"
    /\ UNCHANGED <<dryRun, changes, remote, initial, idx, listing, filters,
                   tasks, applied, ctxDone, failures, firstErr, errOut>>
    /\ UNCHANGED exceptApply

\* ctxWithMyTimeout and the two groups.
Begin ==
    /\ pc = "start"
    /\ HasChanges(changes)
    /\ pc' = "list"
    /\ UNCHANGED <<dryRun, changes, remote, initial, idx, listing, filters,
                   tasks, applied, result, ctxDone, failures, firstErr, errOut>>
    /\ UNCHANGED exceptApply

\* ctx ends while the pass runs: the guard cancels it after rootCtx was
\* cancelled, or maxTimeout has passed.
CtxEnds ==
    /\ pc \notin {"idle", "start", "done"}
    /\ ~ctxDone
    /\ ctxDone' = TRUE
    /\ UNCHANGED <<dryRun, changes, remote, initial, pc, idx, listing, filters,
                   tasks, applied, result, failures, firstErr, errOut>>
    /\ UNCHANGED exceptApply

\* zoneFromDNSNameGetter with its listing of the zones, made by
\* GetDomainFilter under context.Background(), which succeeds or fails.
ListZones(ok) ==
    /\ pc = "list"
    /\ ok \/ failures < MaxFail
    /\ failures' = IF ok THEN failures ELSE failures + 1
    /\ listing' = IF ok THEN "ok" ELSE "failed"
    /\ filters' = GetDomainFilter(RemoteZones, ok)
    /\ Goto(Enter(changes, 1))
    /\ UNCHANGED <<dryRun, changes, remote, initial, tasks, applied, result,
                   ctxDone, firstErr, errOut>>
    /\ UNCHANGED exceptApply

\* One iteration of "for _, d := range changes.UpdateNew" (teardown).
TeardownStep ==
    /\ pc = "teardown"
    /\ LET d == changes.UpdateNew[idx]
           zone == extractZone(filters, d.DNSName)
           diff == IF zone = Empty THEN <<>>
                   ELSE unexistingTargets(d, changes.UpdateOld, FALSE)
           recordValues == RecordValues(dryRun, diff)
       IN  /\ applied' = [applied EXCEPT !.updated = @ + Counted(dryRun, diff)]
           /\ tasks' = IF recordValues = <<>> THEN tasks
                       ELSE Append(tasks, NewTask("gr2", "teardown", idx, zone,
                                                  d, recordValues, recordValues))
    /\ Goto(After(changes, "teardown", idx))
    /\ UNCHANGED <<dryRun, changes, remote, initial, listing, filters, result,
                   ctxDone, failures, firstErr, errOut>>
    /\ UNCHANGED exceptApply

\* One iteration of "for _, d := range changes.Delete".
DeleteStep ==
    /\ pc = "delete"
    /\ LET d == changes.Delete[idx]
           zone == extractZone(filters, d.DNSName)
       IN  IF zone = Empty
           THEN UNCHANGED <<applied, tasks>>
           ELSE /\ applied' = [applied EXCEPT
                                 !.deleted = @ + Counted(dryRun, d.Targets)]
                /\ tasks' = Append(tasks,
                                NewTask("gr1", "delete", idx, zone, d,
                                        RecordValues(dryRun, d.Targets),
                                        RecordValues(dryRun, d.Targets)))
    /\ Goto(After(changes, "delete", idx))
    /\ UNCHANGED <<dryRun, changes, remote, initial, listing, filters, result,
                   ctxDone, failures, firstErr, errOut>>
    /\ UNCHANGED exceptApply

\* One iteration of "for _, c := range changes.Create".
CreateStep ==
    /\ pc = "create"
    /\ LET c == changes.Create[idx]
           zone == extractZone(filters, c.DNSName)
       IN  IF CreateSkipped(zone, c)
           THEN UNCHANGED <<applied, tasks>>
           ELSE /\ applied' = [applied EXCEPT
                                 !.created = @ + Counted(dryRun, c.Targets)]
                /\ tasks' = Append(tasks,
                                NewTask("gr1", "create", idx, zone, c,
                                        RecordValues(dryRun, c.Targets),
                                        ResourceRecords(c.RecordType,
                                            RecordValues(dryRun, c.Targets))))
    /\ Goto(After(changes, "create", idx))
    /\ UNCHANGED <<dryRun, changes, remote, initial, listing, filters, result,
                   ctxDone, failures, firstErr, errOut>>
    /\ UNCHANGED exceptApply

\* err := gr2.Wait(): on an error ApplyChanges returns it (and the deferred
\* cancel runs); otherwise the update-add loop is entered.
WaitGr2 ==
    /\ pc = "wait2"
    /\ WaitReturns("gr2")
    /\ IF WaitError("gr2")
       THEN /\ pc' = "done"
            /\ result' = "err"
            /\ errOut' = ApplyError("gr2")
            /\ ctxDone' = TRUE
            /\ UNCHANGED idx
       ELSE /\ Goto(Enter(changes, PhaseIndex("wait2") + 1))
            /\ UNCHANGED <<result, ctxDone, errOut>>
    /\ UNCHANGED <<dryRun, changes, remote, initial, listing, filters, tasks,
                   applied, failures, firstErr>>
    /\ UNCHANGED exceptApply

\* One iteration of "for _, c := range changes.UpdateNew" (update-add).
UpdateAddStep ==
    /\ pc = "updateAdd"
    /\ LET c == changes.UpdateNew[idx]
           zone == extractZone(filters, c.DNSName)
           diff == IF zone = Empty THEN <<>>
                   ELSE unexistingTargets(c, changes.UpdateOld, TRUE)
           recordValues == ResourceRecords(c.RecordType,
                                           RecordValues(dryRun, diff))
       IN  /\ applied' = [applied EXCEPT !.updated = @ + Counted(dryRun, diff)]
           /\ tasks' = IF recordValues = <<>> THEN tasks
                       ELSE Append(tasks, NewTask("gr1", "updateAdd", idx, zone,
                                                  c, RecordValues(dryRun, diff),
                                                  recordValues))
    /\ Goto(After(changes, "updateAdd", idx))
    /\ UNCHANGED <<dryRun, changes, remote, initial, listing, filters, result,
                   ctxDone, failures, firstErr, errOut>>
    /\ UNCHANGED exceptApply

\* err = gr1.Wait() and the return that follows it.
WaitGr1 ==
    /\ pc = "wait1"
    /\ WaitReturns("gr1")
    /\ pc' = "done"
    /\ result' = IF WaitError("gr1") THEN "err" ELSE "ok"
    /\ errOut' = IF WaitError("gr1") THEN ApplyError("gr1") ELSE <<>>
    /\ ctxDone' = TRUE
    /\ UNCHANGED <<dryRun, changes, remote, initial, idx, listing, filters,
                   tasks, applied, failures, firstErr>>
    /\ UNCHANGED exceptApply

(***************************************************************************)
(* The goroutines of the two groups: one client call each                  *)
(***************************************************************************)
\* A lookup that takes every RRSet for one that holds records.
FoundAlways(rrSet) == TRUE

\* c.RRSet answered with an RRSet that holds records (not 404, not empty).
Found(rrSet) == rrSet.records # <<>>

IsDeleteKind(t) == t.kind \in {"teardown", "delete"}

\* A removal that keeps no record at all.
KeptRecordsNone(records, contents) == <<>>

\* A removal that keeps every record.
KeptRecordsAll(records, contents) == records

\* DeleteRRSetRecord: the records kept, those with a content whose string
\* form is none of the contents to delete.
KeptRecords(records, contents) ==
    SelectSeq(records,
              LAMBDA r : Len(r) > 0 /\ ContentToString(r) \notin Range(contents))

\* AddZoneRRSet: the records written over an RRSet that exists.
ReplacedRecords(values, existing) == values

\* AddZoneRRSet that sends the records of the RRSet without the new values.
ExistingRecordsOnly(values, existing) == existing

\* record.Records = append(record.Records, records.Records...)
ExtendedRecords(values, existing) == values \o existing

\* The error of a request that got no answer: ctx was done, or the
\* transport failed.
RequestError(done) == IF done THEN "context done" ELSE "transport"

\* errgroup keeps the error of the goroutine that is first to return one.
Kept(first, g, i, failed) ==
    IF failed /\ first[g] = 0 THEN [first EXCEPT ![g] = i] ELSE first

\* The first request of a client call, c.RRSet, and what the call decides
\* from its answer.  A request under a cancelled ctx is not sent and fails;
\* any request may fail for a transient reason.
TaskLookup(i, ok) ==
    /\ tasks[i].pc = "spawned"
    /\ IF ok THEN ~ctxDone ELSE ctxDone \/ failures < MaxFail
    /\ failures' = IF ok \/ ctxDone THEN failures ELSE failures + 1
    /\ LET t == tasks[i]
           rrSet == remote[t.key]
           found == ok /\ Found(rrSet)
           kept == KeptRecords(rrSet.records, t.args)
           next ==
             IF IsDeleteKind(t)
             THEN IF ~ok THEN [t EXCEPT !.pc = "done", !.err = TRUE,
                                        !.cause = RequestError(ctxDone)]
                  ELSE IF ~found THEN [t EXCEPT !.pc = "done"]
                  ELSE IF kept = <<>>
                       THEN [t EXCEPT !.pc = "write", !.op = "DELETE"]
                       ELSE [t EXCEPT !.pc = "write", !.op = "PUT",
                                      !.body = [ttl |-> rrSet.ttl,
                                                records |-> kept]]
             ELSE IF found
                  THEN [t EXCEPT !.pc = "write", !.op = "PUT",
                                 !.body = [ttl |-> t.ttl,
                                           records |-> ExtendedRecords(t.args,
                                                           rrSet.records)]]
                  ELSE [t EXCEPT !.pc = "write", !.op = "POST",
                                 !.body = [ttl |-> t.ttl, records |-> t.args]]
       IN  /\ tasks' = [tasks EXCEPT ![i] = next]
           /\ firstErr' = Kept(firstErr, t.group, i, next.err)
    /\ UNCHANGED <<dryRun, changes, remote, initial, pc, idx, listing, filters,
                   applied, result, ctxDone, errOut>>
    /\ UNCHANGED exceptApply

\* The second request of a client call: UpdateRRSet (PUT), CreateRRSet
\* (POST) or DeleteRRSet (DELETE).  The service refuses a PUT on a missing
\* RRSet and a POST on an existing one; a POST without records is refused
\* or stores nothing (accept); a DELETE of a missing RRSet answers 404,
\* which DeleteRRSet takes for success.
TaskWrite(i, ok, accept) ==
    /\ tasks[i].pc = "write"
    /\ IF ok THEN ~ctxDone ELSE ctxDone \/ failures < MaxFail
    /\ ~ok => accept
    /\ failures' = IF ok \/ ctxDone THEN failures ELSE failures + 1
    /\ LET t == tasks[i]
           present == remote[t.key].records # <<>>
           refused ==
             CASE t.op = "PUT" -> ~present
               [] t.op = "POST" -> present \/ (t.body.records = <<>> /\ ~accept)
               [] OTHER -> FALSE
           stored ==
             CASE t.op = "DELETE" -> Absent
               [] t.body.records = <<>> -> Absent
               [] OTHER -> t.body
       IN  /\ (t.op = "POST" /\ t.body.records = <<>> /\ ~present) \/ accept
           /\ tasks' = [tasks EXCEPT ![i] =
                          [t EXCEPT !.pc = "done", !.err = ~ok \/ refused,
                                    !.cause = IF ~ok THEN RequestError(ctxDone)
                                              ELSE IF refused THEN "refused"
                                              ELSE "none"]]
           /\ firstErr' = Kept(firstErr, t.group, i, ~ok \/ refused)
           /\ remote' = IF ok /\ ~refused
                        THEN [remote EXCEPT ![t.key] = stored]
                        ELSE remote
    /\ UNCHANGED <<dryRun, changes, initial, pc, idx, listing, filters,
                   applied, result, ctxDone, errOut>>
    /\ UNCHANGED exceptApply

(***************************************************************************)
(* Inputs of a pass                                                        *)
(***************************************************************************)
MaxEntries == 2

RecordTypes == {"A", "TXT"}

Endpoint(name, recordType, targets) ==
    [DNSName |-> name, RecordType |-> recordType, Targets |-> targets,
     RecordTTL |-> 300]

CreateEntries ==
    {Endpoint(NameIn, "A", <<"v1", "v2">>), Endpoint(NameIn, "A", <<"v2", "v2">>),
     Endpoint(NameIn, "TXT", <<"v1">>), Endpoint(NameOut, "A", <<"v1">>)}

DeleteEntries ==
    {Endpoint(NameIn, "A", <<"v1">>), Endpoint(NameIn, "TXT", <<"v1">>),
     Endpoint(NameOut, "A", <<"v1">>)}

\* Pairs <<updateOld entry, updateNew entry>>.
UpdatePairs ==
    {<<Endpoint(NameIn, "A", p[1]), Endpoint(NameIn, "A", p[2])>> :
        p \in {<<<<"v1">>, <<"v2">>>>, <<<<"v1", "v2">>, <<"v2", "v1">>>>,
               <<<<"v1">>, <<"v1">>>>, <<<<"v1", "v2">>, <<"v1">>>>,
               <<<<"v1">>, <<"v1", "v2">>>>, <<<<"v1">>, <<"v2", "v2">>>>}}
    \cup {<<Endpoint(NameIn, "TXT", <<"v1">>), Endpoint(NameIn, "TXT", <<"v2">>)>>,
          <<Endpoint(NameIn, "TXT", <<"v1">>), Endpoint(NameIn, "TXT", <<"v1">>)>>,
          <<Endpoint(NameOut, "A", <<"v1">>), Endpoint(NameIn, "A", <<"v2">>)>>,
          <<Endpoint(NameOut, "A", <<"v1">>), Endpoint(NameOut, "A", <<"v2">>)>>}

\* The lists of at most n entries of S, no entry twice in a list.
RECURSIVE SeqsUpTo(_, _)
SeqsUpTo(S, n) ==
    IF n = 0 THEN {<<>>}
    ELSE LET shorter == SeqsUpTo(S, n - 1)
         IN  shorter \cup {Append(p[1], p[2]) :
                            p \in {q \in shorter \X S : q[2] \notin Range(q[1])}}

\* The orders in which updateOld may list the old entries of the pairs.
Orders(n) == Permutations(1..n)

\* updateNew lists the new entries of the pairs, updateOld their old
\* entries in any order.
ChangeSets ==
    {[Create |-> t[1], Delete |-> t[2],
      UpdateOld |-> [i \in 1..Len(t[3]) |-> t[3][t[4][i]][1]],
      UpdateNew |-> [i \in 1..Len(t[3]) |-> t[3][i][2]]] :
        t \in UNION {
            {u \in SeqsUpTo(CreateEntries, MaxEntries)
                   \X SeqsUpTo(DeleteEntries, MaxEntries)
                   \X {us} \X Orders(Len(us)) :
                Len(u[1]) + Len(u[2]) + Len(us) <= MaxEntries} :
            us \in SeqsUpTo(UpdatePairs, MaxEntries)}}

RRKeys == {KeyOf(z, NameIn, t) : z \in Range(RemoteZones), t \in RecordTypes}

Held(values) == [ttl |-> 60, records |-> ResourceRecords("A", values)]

\* What the service holds when a pass starts: nothing, or an RRSet under
\* one of the two keys.
RemoteStates ==
    {[k \in RRKeys |-> IF k[3] = h[1] THEN h[2] ELSE Absent] :
        h \in {<<"A", Absent>>, <<"A", Held(<<"v1">>)>>, <<"A", Held(<<"v2">>)>>,
               <<"A", Held(<<"v1", "v2">>)>>, <<"TXT", Held(<<"v1">>)>>}}

ZoneIdle ==
    /\ zName = Empty
    /\ zZones = <<>>
    /\ zResult = Empty
    /\ zpc = "idle"

DiffIdle ==
    /\ dExisting = Endpoint(Empty, "A", <<>>)
    /\ dCompare = <<>>
    /\ dFlag = FALSE
    /\ dResult = <<>>
    /\ dpc = "idle"

NoOutcome == [zones |-> <<>>, failed |-> FALSE, names |-> <<>>]

FetchIdle ==
    /\ fRemote = <<>>
    /\ fpc = "idle"
    /\ fZones = <<>>
    /\ fIdx = 1
    /\ fFetch = <<>>
    /\ fErr = <<>>
    /\ fOut = NoOutcome
    /\ fResult = <<>>
    /\ fReturn = "none"

GuardIdle ==
    /\ gRoot = "live"
    /\ gDeadline = <<>>
    /\ gCtx = "live"
    /\ gBy = "none"
    /\ gWatch = "idle"
    /\ gNow = 0

ContentIdle ==
    /\ cType = "A"
    /\ cValue = <<>>
    /\ cContent = <<>>
    /\ cString = <<>>
    /\ cpc = "idle"

ProviderIdle ==
    /\ nApiUrl = <<>>
    /\ nApiKey = <<>>
    /\ nDryRun = FALSE
    /\ nProvider = <<>>
    /\ nErr = "none"
    /\ npc = "idle"

HandlerIdle ==
    /\ hContentType = <<>>
    /\ hAccept = <<>>
    /\ hBody = [valid |-> FALSE,
                changes |-> [Create |-> <<>>, Delete |-> <<>>,
                             UpdateOld |-> <<>>, UpdateNew |-> <<>>]]
    /\ hStatus = 0
    /\ hpc = "idle"

ApplyIdle ==
    /\ dryRun = FALSE
    /\ changes = [Create |-> <<>>, Delete |-> <<>>, UpdateOld |-> <<>>,
                  UpdateNew |-> <<>>]
    /\ remote = [k \in RRKeys |-> Absent]
    /\ initial = remote
    /\ pc = "idle"
    /\ idx = 1
    /\ listing = "none"
    /\ filters = <<>>
    /\ tasks = <<>>
    /\ applied = [created |-> 0, deleted |-> 0, updated |-> 0]
    /\ result = "none"
    /\ ctxDone = FALSE
    /\ failures = 0
    /\ firstErr = [gr1 |-> 0, gr2 |-> 0]
    /\ errOut = <<>>

Init ==
    /\ HandlerIdle
    /\ ZoneIdle
    /\ DiffIdle
    /\ GuardIdle
    /\ FetchIdle
    /\ ProviderIdle
    /\ ContentIdle
    /\ dryRun \in BOOLEAN
    /\ changes \in ChangeSets
    /\ remote \in RemoteStates
    /\ initial = remote
    /\ pc = "start"
    /\ idx = 1
    /\ listing = "none"
    /\ filters = <<>>
    /\ tasks = <<>>
    /\ applied = [created |-> 0, deleted |-> 0, updated |-> 0]
    /\ result = "none"
    /\ ctxDone = FALSE
    /\ failures = 0
    /\ firstErr = [gr1 |-> 0, gr2 |-> 0]
    /\ errOut = <<>>

\* Any goroutine takes its next request, which succeeds or fails.
LookupStep == \E i \in 1..Len(tasks), ok \in BOOLEAN : TaskLookup(i, ok)

WriteStep ==
    \E i \in 1..Len(tasks), ok \in BOOLEAN, accept \in BOOLEAN :
        TaskWrite(i, ok, accept)

Next ==
    \/ ReturnNoChanges
    \/ Begin
    \/ CtxEnds
    \/ \E ok \in BOOLEAN : ListZones(ok)
    \/ TeardownStep
    \/ DeleteStep
    \/ CreateStep
    \/ WaitGr2
    \/ UpdateAddStep
    \/ WaitGr1
    \/ LookupStep
    \/ WriteStep

Spec == Init /\ [][Next]_vars

(***************************************************************************)
(* Inputs of the resolver check                                            *)
(***************************************************************************)
MaxNameLen == 5

Letters == {"a", "b"}
Chars == Letters \cup {Dot}

RECURSIVE StringsUpTo(_)
StringsUpTo(n) ==
    IF n = 0 THEN {<<>>}
    ELSE LET shorter == StringsUpTo(n - 1)
         IN  shorter \cup {Append(s, c) : s \in shorter, c \in Chars}

\* The names of zones: labels of one letter, no leading or trailing dot.
ZoneNames ==
    {s \in StringsUpTo(MaxNameLen) :
        \A i \in 1..Len(Split(s)) : Len(Split(s)[i]) = 1}

\* The listings: at most two zones, the longer name first.
ZoneLists ==
    {<<>>} \cup {<<z>> : z \in ZoneNames}
           \cup {p \in ZoneNames \X ZoneNames :
                     p[1] # p[2] /\ Len(p[1]) >= Len(p[2])}

ZoneInit ==
    /\ HandlerIdle
    /\ ApplyIdle
    /\ DiffIdle
    /\ GuardIdle
    /\ FetchIdle
    /\ ProviderIdle
    /\ ContentIdle
    /\ zName \in StringsUpTo(MaxNameLen)
    /\ zZones \in ZoneLists
    /\ zResult = Empty
    /\ zpc = "input"

Resolve ==
    /\ zpc = "input"
    /\ zResult' = extractZone(GetDomainFilter(zZones, TRUE), zName)
    /\ zpc' = "resolved"
    /\ UNCHANGED <<zName, zZones>>
    /\ UNCHANGED exceptZone

ZoneNext == Resolve

SpecZone == ZoneInit /\ [][ZoneNext]_vars

(***************************************************************************)
(* Inputs of the differ check                                              *)
(***************************************************************************)
MaxTargets == 2

Values == {"v1", "v2"}

\* The target lists of at most n values, repeats allowed.
RECURSIVE TargetLists(_)
TargetLists(n) ==
    IF n = 0 THEN {<<>>}
    ELSE LET shorter == TargetLists(n - 1)
         IN  shorter \cup {Append(t, v) : t \in shorter, v \in Values}

DiffEndpoints ==
    {Endpoint(n, t, ts) : n \in {NameIn, NameOut}, t \in RecordTypes,
                          ts \in TargetLists(MaxTargets)}

\* toCompare: at most two endpoints.
CompareLists ==
    {<<>>} \cup {<<e>> : e \in DiffEndpoints} \cup (DiffEndpoints \X DiffEndpoints)

DiffInit ==
    /\ HandlerIdle
    /\ ZoneIdle
    /\ ApplyIdle
    /\ GuardIdle
    /\ FetchIdle
    /\ ProviderIdle
    /\ ContentIdle
    /\ dExisting \in {Endpoint(NameIn, "A", ts) : ts \in TargetLists(MaxTargets)}
    /\ dCompare \in CompareLists
    /\ dFlag \in BOOLEAN
    /\ dResult = <<>>
    /\ dpc = "input"

Diff ==
    /\ dpc = "input"
    /\ dResult' = unexistingTargets(dExisting, dCompare, dFlag)
    /\ dpc' = "returned"
    /\ UNCHANGED <<dExisting, dCompare, dFlag>>
    /\ UNCHANGED exceptDiff

DiffNext == Diff

SpecDiff == DiffInit /\ [][DiffNext]_vars

(***************************************************************************)
(* The timeout guard                                                       *)
(***************************************************************************)
\* maxTimeout, in seconds.
maxTimeout == 60

\* The time the guard is followed for.
MaxClock == 62

\* rootCtx has no deadline, or one before, at or after the limit of ctx.
RootDeadlines ==
    {<<>>} \cup {<<d>> : d \in {maxTimeout - 30, maxTimeout, maxTimeout + 1}}

\* strings.Contains(ctxErr.Error(), "deadline exceeded"): of the two errors
\* a context ends with, context.DeadlineExceeded alone has that text.
IsDeadlineExceeded(state) == state = "deadline exceeded"

GuardInit ==
    /\ HandlerIdle
    /\ ZoneIdle
    /\ ApplyIdle
    /\ DiffIdle
    /\ FetchIdle
    /\ ProviderIdle
    /\ ContentIdle
    /\ gDeadline \in RootDeadlines
    /\ gRoot \in {"live", "canceled"}
    /\ gCtx = "live"
    /\ gBy = "none"
    /\ gWatch = "select"
    /\ gNow = 0

RootDue == gRoot = "live" /\ gDeadline # <<>> /\ gNow >= gDeadline[1]

\* A context made without the limit of maxTimeout.
CtxDueNever == FALSE

CtxDue == gCtx = "live" /\ gNow >= maxTimeout

\* A second passes; a timer that is due fires before the next one does.
Tick ==
    /\ gNow < MaxClock
    /\ ~RootDue /\ ~CtxDue
    /\ gNow' = gNow + 1
    /\ UNCHANGED <<gRoot, gDeadline, gCtx, gBy, gWatch>>
    /\ UNCHANGED exceptGuard

\* The caller cancels rootCtx.
RootCancel ==
    /\ gRoot = "live"
    /\ gRoot' = "canceled"
    /\ UNCHANGED <<gDeadline, gCtx, gBy, gWatch, gNow>>
    /\ UNCHANGED exceptGuard

\* The deadline of rootCtx passes.
RootExpire ==
    /\ RootDue
    /\ gRoot' = "deadline exceeded"
    /\ UNCHANGED <<gDeadline, gCtx, gBy, gWatch, gNow>>
    /\ UNCHANGED exceptGuard

\* context.WithTimeout(context.Background(), maxTimeout): the limit passes.
CtxExpire ==
    /\ CtxDue
    /\ gCtx' = "deadline exceeded"
    /\ gBy' = "timer"
    /\ UNCHANGED <<gRoot, gDeadline, gWatch, gNow>>
    /\ UNCHANGED exceptGuard

\* The cancel the guard returned is called by the pass (defer cancel()).
PassCancel ==
    /\ gCtx = "live"
    /\ gCtx' = "canceled"
    /\ gBy' = "pass"
    /\ UNCHANGED <<gRoot, gDeadline, gWatch, gNow>>
    /\ UNCHANGED exceptGuard

\* A guard that calls cancel whatever rootCtx ended with.
GuardCancelsOnAnyEnd(state) == TRUE

\* case <-rootCtx.Done(): return on a deadline, cancel() otherwise.
GuardCancels(state) == ~IsDeadlineExceeded(state)

WatchRoot ==
    /\ gWatch = "select"
    /\ gRoot # "live"
    /\ gWatch' = "exited"
    /\ IF GuardCancels(gRoot) /\ gCtx = "live"
       THEN gCtx' = "canceled" /\ gBy' = "guard"
       ELSE UNCHANGED <<gCtx, gBy>>
    /\ UNCHANGED <<gRoot, gDeadline, gNow>>
    /\ UNCHANGED exceptGuard

\* case <-ctx.Done(): the goroutine ends.
WatchCtx ==
    /\ gWatch = "select"
    /\ gCtx # "live"
    /\ gWatch' = "exited"
    /\ UNCHANGED <<gRoot, gDeadline, gCtx, gBy, gNow>>
    /\ UNCHANGED exceptGuard

GuardNext ==
    \/ Tick
    \/ RootCancel
    \/ RootExpire
    \/ CtxExpire
    \/ PassCancel
    \/ WatchRoot
    \/ WatchCtx

\* The goroutine of the guard is scheduled when it can run.
SpecGuard ==
    GuardInit /\ [][GuardNext]_vars /\ WF_vars(WatchRoot) /\ WF_vars(WatchCtx)

\* The same, with time that passes and timers that fire when they are due.
SpecGuardTimed ==
    /\ SpecGuard
    /\ WF_vars(Tick) /\ WF_vars(RootExpire) /\ WF_vars(CtxExpire)

(***************************************************************************)
(* Records and the bulk fetch AllZonesWithRecords                          *)
(***************************************************************************)
MaxRecords == 2

ZoneZY == <<"z", ".", "y">>
NameInDotted == NameIn \o <<Dot>>

ZoneRecord(name, recordType, ttl, shortAnswers) ==
    [Name |-> name, Type |-> recordType, TTL |-> ttl,
     ShortAnswers |-> shortAnswers]

\* The records a zone may hold: of a type that is supported or not, with or
\* without a dot at the end of the name or of a value.
ZoneRecords ==
    {ZoneRecord(NameIn, "A", 60, <<<<"1">>, <<"2">>>>),
     ZoneRecord(NameInDotted, "CNAME", 300, <<<<"t", Dot>>>>),
     ZoneRecord(NameIn, "CAA", 60, <<<<"c">>>>),
     ZoneRecord(NameIn, "TXT", 0, <<>>)}

\* The listings of the service: no zone, one, or two in either order.
ZonesWithRecords ==
    LET zone(n, rs) == [Name |-> n, Records |-> rs]
        lists == SeqsUpTo(ZoneRecords, MaxRecords)
    IN  {<<>>}
        \cup {<<zone(n, rs)>> : n \in {ZoneXY, ZoneZY}, rs \in lists}
        \cup {<<zone(p[1], p[2]), zone(p[3], p[4])>> :
                 p \in {q \in {ZoneXY, ZoneZY} \X lists \X {ZoneXY, ZoneZY} \X lists :
                            q[1] # q[3]}}

\* provider.SupportedRecordType
SupportedRecordType(recordType) ==
    recordType \in {"A", "AAAA", "CNAME", "SRV", "TXT", "NS"}

\* An endpoint that carries name and values as the record has them.
NewEndpointWithTTLAsGiven(dnsName, recordType, ttl, targets) ==
    [DNSName |-> dnsName, RecordType |-> recordType, Targets |-> targets,
     RecordTTL |-> ttl]

\* endpoint.NewEndpointWithTTL: a dot at the end of the name and of each
\* target is removed.
NewEndpointWithTTL(dnsName, recordType, ttl, targets) ==
    [DNSName |-> TrimSuffix(dnsName), RecordType |-> recordType,
     Targets |-> [i \in 1..Len(targets) |-> TrimSuffix(targets[i])],
     RecordTTL |-> ttl]

\* The loop of Records over the records of one zone.
RECURSIVE EndpointsOfRecords(_)
EndpointsOfRecords(rs) ==
    IF rs = <<>> THEN <<>>
    ELSE LET r == Head(rs)
         IN  (IF SupportedRecordType(r.Type)
              THEN <<NewEndpointWithTTL(r.Name, r.Type, r.TTL, r.ShortAnswers)>>
              ELSE <<>>)
             \o EndpointsOfRecords(Tail(rs))

\* The loop of Records over the zones.
RECURSIVE EndpointsOfZones(_)
EndpointsOfZones(zs) ==
    IF zs = <<>> THEN <<>>
    ELSE EndpointsOfRecords(Head(zs).Records) \o EndpointsOfZones(Tail(zs))

FetchInit ==
    /\ HandlerIdle
    /\ ZoneIdle
    /\ ApplyIdle
    /\ DiffIdle
    /\ GuardIdle
    /\ ProviderIdle
    /\ ContentIdle
    /\ fRemote \in ZonesWithRecords
    /\ fpc = "start"
    /\ fZones = <<>>
    /\ fIdx = 1
    /\ fFetch = <<>>
    /\ fErr = <<>>
    /\ fOut = NoOutcome
    /\ fResult = <<>>
    /\ fReturn = "none"

\* Records: GetDomainFilter, whose own listing may fail without effect on
\* the call, and ctxWithMyTimeout.
RecordsStart ==
    /\ fpc = "start"
    /\ fpc' = "list"
    /\ UNCHANGED <<fRemote, fZones, fIdx, fFetch, fErr, fOut, fResult, fReturn>>
    /\ UNCHANGED exceptFetch

\* AllZonesWithRecords: c.AllZones lists the zones, without their records,
\* or fails.
ListAllZones(ok) ==
    /\ fpc = "list"
    /\ IF ok
       THEN /\ fZones' = [i \in 1..Len(fRemote) |->
                             [Name |-> fRemote[i].Name, Records |-> <<>>]]
            /\ fFetch' = [i \in 1..Len(fRemote) |-> "none"]
            /\ fpc' = IF fRemote = <<>> THEN "wait" ELSE "spawn"
            /\ UNCHANGED fOut
       ELSE /\ fOut' = [zones |-> <<>>, failed |-> TRUE, names |-> <<>>]
            /\ fpc' = "convert"
            /\ UNCHANGED <<fZones, fFetch>>
    /\ UNCHANGED <<fRemote, fIdx, fErr, fResult, fReturn>>
    /\ UNCHANGED exceptFetch

\* One iteration of "for i, z := range zones": gr.Go.
SpawnFetch ==
    /\ fpc = "spawn"
    /\ fFetch' = [fFetch EXCEPT ![fIdx] = "running"]
    /\ IF fIdx < Len(fZones)
       THEN fIdx' = fIdx + 1 /\ UNCHANGED fpc
       ELSE fpc' = "wait" /\ UNCHANGED fIdx
    /\ UNCHANGED <<fRemote, fZones, fErr, fOut, fResult, fReturn>>
    /\ UNCHANGED exceptFetch

\* A goroutine that reads the variable of the loop when it runs.
SlotOfLoop(i) == fIdx

\* i := i: the goroutine started for the zone at position i holds that
\* position.
Slot(i) == i

\* The goroutine of one zone: c.Zone(ctx, z.Name) succeeds and the zone is
\* stored in its place, or fails with an error that carries the name; the
\* group keeps its first error.
FetchZone(i, ok) ==
    /\ fFetch[i] = "running"
    /\ IF ok
       THEN /\ fZones' = [fZones EXCEPT ![Slot(i)] = fRemote[i]]
            /\ fFetch' = [fFetch EXCEPT ![i] = "ok"]
            /\ UNCHANGED fErr
       ELSE /\ fFetch' = [fFetch EXCEPT ![i] = "failed"]
            /\ fErr' = IF fErr = <<>> THEN <<fZones[i].Name>> ELSE fErr
            /\ UNCHANGED fZones
    /\ UNCHANGED <<fRemote, fpc, fIdx, fOut, fResult, fReturn>>
    /\ UNCHANGED exceptFetch

\* A wait that does not wait for the goroutines.
FetchesReturnedAtOnce == TRUE

\* gr.Wait() returns once every goroutine has returned.
FetchesReturned == \A i \in 1..Len(fFetch) : fFetch[i] \in {"ok", "failed"}

\* err = gr.Wait() and the return of AllZonesWithRecords.
WaitFetches ==
    /\ fpc = "wait"
    /\ FetchesReturned
    /\ fOut' = IF fErr # <<>>
               THEN [zones |-> <<>>, failed |-> TRUE, names |-> fErr]
               ELSE [zones |-> fZones, failed |-> FALSE, names |-> <<>>]
    /\ fpc' = "convert"
    /\ UNCHANGED <<fRemote, fZones, fIdx, fFetch, fErr, fResult, fReturn>>
    /\ UNCHANGED exceptFetch

\* Records after AllZonesWithRecords: the error is returned, or the records
\* of the zones are turned into endpoints.
RecordsReturn ==
    /\ fpc = "convert"
    /\ IF fOut.failed
       THEN fReturn' = "err" /\ UNCHANGED fResult
       ELSE fReturn' = "ok" /\ fResult' = EndpointsOfZones(fOut.zones)
    /\ fpc' = "done"
    /\ UNCHANGED <<fRemote, fZones, fIdx, fFetch, fErr, fOut>>
    /\ UNCHANGED exceptFetch

FetchNext ==
    \/ RecordsStart
    \/ \E ok \in BOOLEAN : ListAllZones(ok)
    \/ SpawnFetch
    \/ \E i \in 1..Len(fFetch), ok \in BOOLEAN : FetchZone(i, ok)
    \/ WaitFetches
    \/ RecordsReturn

SpecFetch == FetchInit /\ [][FetchNext]_vars

(***************************************************************************)
(* Properties of a pass                                                    *)
(***************************************************************************)
TaskIds == 1..Len(tasks)

\* The client call of a goroutine has been invoked / has returned.
Started(i) == tasks[i].pc # "spawned"
Finished(i) == tasks[i].pc = "done"
Failed(i) == Finished(i) /\ tasks[i].err

Returned == pc = "done"

\* The zone the resolver of this pass gives an entry.
ZoneOf(e) == extractZone(filters, e.DNSName)
EntryKey(e) == KeyOf(ZoneOf(e), e.DNSName, e.RecordType)
SameKey(e, f) == e.DNSName = f.DNSName /\ e.RecordType = f.RecordType

\* The values the service holds under a key, in their string form.
ValuesOf(state, k) ==
    [i \in 1..Len(state[k].records) |-> ContentToString(state[k].records[i])]

\* values holds every target exactly once and nothing else.
ExactlyTargets(values, targets) ==
    /\ \A t \in Range(targets) :
          Cardinality({i \in 1..Len(values) : values[i] = t}) = 1
    /\ Range(values) \subseteq Range(targets)

NoDuplicates(s) == \A i, j \in 1..Len(s) : s[i] = s[j] => i = j

\* No other entry of create, delete or updateNew has the key of the entry
\* at position i of the given group.
KeyUnique(group, i) ==
    LET e == changes[group][i]
    IN  \A g \in {"Create", "Delete", "UpdateNew"} :
            \A j \in 1..Len(changes[g]) :
                SameKey(changes[g][j], e) => (g = group /\ j = i)

LiveSuccess == Returned /\ ~dryRun /\ result = "ok"

CreateCovered(i) ==
    LET e == changes.Create[i]
    IN  /\ ZoneOf(e) # Empty
        /\ \E t \in TaskIds : tasks[t].kind = "create" /\ tasks[t].entry = i
        /\ KeyUnique("Create", i)
        /\ NoDuplicates(e.Targets)
        /\ initial[EntryKey(e)] = Absent

UpdateCovered(i) ==
    LET e == changes.UpdateNew[i]
        m == MatchIndex(e, changes.UpdateOld)
    IN  /\ ZoneOf(e) # Empty
        /\ m # 0
        /\ KeyUnique("UpdateNew", i)
        /\ NoDuplicates(e.Targets)
        /\ ExactlyTargets(ValuesOf(initial, EntryKey(e)),
                          changes.UpdateOld[m].Targets)

C2_RemovalBeforeAddition ==
    \A i, j \in TaskIds :
        (/\ tasks[i].kind = "updateAdd"
         /\ tasks[j].kind = "teardown"
         /\ tasks[j].entry = tasks[i].entry) => Finished(j)

\* An update whose addition is dispatched and not yet invoked, after its
\* removal was made.
C2_Witness ==
    \E i, j \in TaskIds :
        /\ tasks[i].kind = "updateAdd" /\ ~Started(i)
        /\ tasks[j].kind = "teardown" /\ tasks[j].entry = tasks[i].entry
        /\ tasks[j].op # "none"

\* C3: once a teardown task has failed, ApplyChanges returns an error and no
\* create, delete or update-add call has been made in the pass.
C3_TeardownFailureAbortsAll ==
    (\E i \in TaskIds : tasks[i].kind = "teardown" /\ Failed(i)) =>
        /\ Returned => result = "err"
        /\ \A j \in TaskIds :
              tasks[j].kind \in {"create", "delete", "updateAdd"} => ~Started(j)

\* C4: a create, delete or update-add call is invoked only when every
\* teardown task of the pass has returned.
C4_PhasesStrictlySequential ==
    \A j \in TaskIds :
        (tasks[j].kind \in {"create", "delete", "updateAdd"} /\ Started(j)) =>
            \A i \in TaskIds : tasks[i].kind = "teardown" => Finished(i)

\* C5: in dry-run mode neither AddZoneRRSet nor DeleteRRSetRecord is invoked.
C5_DryRunMakesNoCall ==
    dryRun => \A i \in TaskIds : ~Started(i)

RECURSIVE Sum(_)
Sum(s) == IF s = <<>> THEN 0 ELSE Head(s) + Sum(Tail(s))

\* The totals of the planned operations, from the Change Set and the zones
\* the resolver knows alone: one per target of a create or delete entry, one
\* per value an update removes or adds.
PlannedTotals(c, fs) ==
    LET resolves(e) == extractZone(fs, e.DNSName) # Empty
        match(e) == c.UpdateOld[MatchIndex(e, c.UpdateOld)]
        stale(e) == Range(match(e).Targets) \ Range(e.Targets)
        fresh(e) == Range(e.Targets) \ Range(match(e).Targets)
        occurrences(s, S) == Cardinality({i \in 1..Len(s) : s[i] \in S})
    IN  [created |-> Sum([i \in 1..Len(c.Create) |->
                            IF resolves(c.Create[i]) /\ c.Create[i].RecordType # "TXT"
                            THEN Len(c.Create[i].Targets) ELSE 0]),
         deleted |-> Sum([i \in 1..Len(c.Delete) |->
                            IF resolves(c.Delete[i])
                            THEN Len(c.Delete[i].Targets) ELSE 0]),
         updated |-> Sum([i \in 1..Len(c.UpdateNew) |->
                            LET e == c.UpdateNew[i]
                            IN  IF resolves(e) /\ MatchIndex(e, c.UpdateOld) # 0
                                THEN occurrences(match(e).Targets, stale(e))
                                     + occurrences(e.Targets, fresh(e))
                                ELSE 0])]

\* C6: the totals a pass ends with are those of the planned operations,
\* the same in a dry run and in a live run that returns success.
C6_TotalsMatchPlan ==
    (Returned /\ (dryRun \/ result = "ok")) =>
        applied = PlannedTotals(changes, filters)

\* A dry run has ended with operations of all three sorts counted.
C6_Witness ==
    /\ Returned /\ dryRun
    /\ applied.updated > 0
    /\ applied.created + applied.deleted > 0

\* Only update pairs, each new entry with the target set of its old entry.
OnlyUnchangedUpdates ==
    /\ changes.Create = <<>>
    /\ changes.Delete = <<>>
    /\ changes.UpdateNew # <<>>
    /\ \A i \in 1..Len(changes.UpdateNew) :
          LET e == changes.UpdateNew[i]
              m == MatchIndex(e, changes.UpdateOld)
          IN  m # 0 /\ Range(e.Targets) = Range(changes.UpdateOld[m].Targets)

\* C7: a Change Set of update pairs whose target sets did not change starts
\* no client call, and the pass returns success.
C7_UnchangedUpdatesMakeNoCall ==
    OnlyUnchangedUpdates => (tasks = <<>> /\ (Returned => result = "ok"))

\* Such a pass went through its loops (the lists differ in order only) with
\* the entry resolved, and has returned.
C7_Witness ==
    /\ OnlyUnchangedUpdates
    /\ Returned
    /\ listing = "ok"
    /\ \E i \in 1..Len(changes.UpdateNew) :
          /\ ZoneOf(changes.UpdateNew[i]) # Empty
          /\ changes.UpdateNew[i].Targets
               # changes.UpdateOld[MatchIndex(changes.UpdateNew[i],
                                              changes.UpdateOld)].Targets

\* C8: a live pass whose zone listing succeeded returns an error exactly
\* when a task it dispatched has returned an error, and when no teardown
\* task failed it returns only once every task has returned.
C8_ErrorIffTaskFailed ==
    (Returned /\ ~dryRun /\ listing = "ok") =>
        /\ (result = "err") <=> (\E i \in TaskIds : Failed(i))
        /\ (\A i \in TaskIds : tasks[i].kind = "teardown" => ~Failed(i)) =>
              \A i \in TaskIds : Finished(i)

\* A live pass has returned the error of a task of the second group, after
\* a teardown task that succeeded.
C8_Witness ==
    /\ Returned /\ ~dryRun /\ listing = "ok"
    /\ result = "err"
    /\ \E i \in TaskIds : tasks[i].kind = "teardown" /\ Finished(i) /\ ~tasks[i].err
    /\ \E i \in TaskIds : tasks[i].kind # "teardown" /\ Failed(i)

\* C9: when the zone listing fails, ApplyChanges returns an error.
C9_ListingFailureIsReturned ==
    (Returned /\ listing = "failed") => result = "err"

(***************************************************************************)
(* Properties of the zone resolver                                         *)
(***************************************************************************)
Labels(name) == Split(Trim(name))

\* The suffixes of a name on its label boundaries that have at least
\* atLeast labels.
LabelSuffixes(name, atLeast) ==
    {Join(SubSeq(Labels(name), i, Len(Labels(name)))) :
        i \in 1..(Len(Labels(name)) - atLeast + 1)}

Longest(S) == CHOOSE s \in S : \A t \in S : Len(t) <= Len(s)

LongestKnown(name, zones, atLeast) ==
    LET known == LabelSuffixes(name, atLeast) \cap Range(zones)
    IN  IF known = {} THEN Empty ELSE Longest(known)

\* C10 as claimed: the resolver returns the longest suffix of the name that
\* is a zone, and no zone exactly when no suffix is one.
C10_LongestSuffix ==
    zpc = "resolved" => zResult = LongestKnown(zName, zZones, 1)

\* C10 as amended: for a name without empty label the resolver returns the
\* longest suffix of at least two labels that is a zone, and no zone exactly
\* when no such suffix is one.
C10_LongestSuffixOfTwoLabels ==
    (zpc = "resolved" /\ \A i \in 1..Len(Labels(zName)) : Labels(zName)[i] # <<>>)
        => zResult = LongestKnown(zName, zZones, 2)

\* The resolver passed over a zone of one label that ends the name and
\* returned the zone of two labels.
C10_Witness ==
    /\ zpc = "resolved"
    /\ \A i \in 1..Len(Labels(zName)) : Labels(zName)[i] # <<>>
    /\ Len(Labels(zName)) = 3
    /\ Len(zZones) = 2
    /\ Range(zZones) \subseteq LabelSuffixes(zName, 1)
    /\ zResult = zZones[1]

(***************************************************************************)
(* Properties of the content differ                                        *)
(***************************************************************************)
\* The list s with the members of S taken out, the rest in order.
RECURSIVE Without(_, _)
Without(s, S) ==
    IF s = <<>> THEN <<>>
    ELSE IF Head(s) \in S THEN Without(Tail(s), S)
    ELSE <<Head(s)>> \o Without(Tail(s), S)

SameRecord(e, f) == e.RecordType = f.RecordType /\ e.DNSName = f.DNSName

\* m is the position of the first candidate with the key of existing.
FirstMatch(m) ==
    /\ m \in 1..Len(dCompare)
    /\ SameRecord(dCompare[m], dExisting)
    /\ \A j \in 1..(m - 1) : ~SameRecord(dCompare[j], dExisting)

\* C11: with the first candidate that has the record type and name of
\* existing, unexistingTargets returns the targets of existing that are not
\* targets of the candidate when the flag is true, and the targets of the
\* candidate that are not targets of existing when it is false; a candidate
\* without targets gives all targets of existing, or none.
C11_DifferReturnsTheDifference ==
    dpc = "returned" =>
        \A m \in 1..Len(dCompare) : FirstMatch(m) =>
            /\ dFlag => dResult = Without(dExisting.Targets,
                                          Range(dCompare[m].Targets))
            /\ ~dFlag => dResult = Without(dCompare[m].Targets,
                                           Range(dExisting.Targets))
            /\ dCompare[m].Targets = <<>> =>
                  dResult = IF dFlag THEN dExisting.Targets ELSE <<>>

\* The differ passed over a first candidate of another key and returned a
\* part, not all, of the targets of existing.
C11_Witness ==
    /\ dpc = "returned"
    /\ FirstMatch(2)
    /\ dFlag
    /\ dResult # <<>>
    /\ dResult # dExisting.Targets

(***************************************************************************)
(* Entries that resolve to no zone                                         *)
(***************************************************************************)
\* The entry of the Change Set a task was started for.
EntryOf(t) ==
    CASE t.kind = "delete" -> changes.Delete[t.entry]
      [] t.kind = "create" -> changes.Create[t.entry]
      [] OTHER -> changes.UpdateNew[t.entry]

\* The Change Set without the create, delete and updateNew entries that
\* resolve to no zone.
ResolvedOnly(c) ==
    [c EXCEPT !.Create = SelectSeq(@, LAMBDA e : ZoneOf(e) # Empty),
              !.Delete = SelectSeq(@, LAMBDA e : ZoneOf(e) # Empty),
              !.UpdateNew = SelectSeq(@, LAMBDA e : ZoneOf(e) # Empty)]

Call(kind, e, args) ==
    [kind |-> kind, key |-> EntryKey(e), args |-> args, ttl |-> e.RecordTTL]

CallOf(t) == [kind |-> t.kind, key |-> t.key, args |-> t.args, ttl |-> t.ttl]

\* The calls, in the order of dispatch, of a pass over a Change Set whose
\* entries all resolve: no entry is looked up in the resolver to decide
\* whether it is handled.
PlannedCalls(c, dry) ==
    LET values(ts) == IF dry THEN <<>> ELSE ts
        records(e, ts) == [i \in 1..Len(values(ts)) |->
                              SetContent(e.RecordType, values(ts)[i])]
        old(e) == c.UpdateOld[MatchIndex(e, c.UpdateOld)]
        stale(e) == IF MatchIndex(e, c.UpdateOld) = 0 THEN <<>>
                    ELSE Without(old(e).Targets, Range(e.Targets))
        fresh(e) == IF MatchIndex(e, c.UpdateOld) = 0 THEN <<>>
                    ELSE Without(e.Targets, Range(old(e).Targets))
        teardown == [i \in 1..Len(c.UpdateNew) |->
                        Call("teardown", c.UpdateNew[i],
                             values(stale(c.UpdateNew[i])))]
        delete == [i \in 1..Len(c.Delete) |->
                      Call("delete", c.Delete[i], values(c.Delete[i].Targets))]
        create == [i \in 1..Len(c.Create) |->
                      Call("create", c.Create[i],
                           records(c.Create[i], c.Create[i].Targets))]
        updateAdd == [i \in 1..Len(c.UpdateNew) |->
                         Call("updateAdd", c.UpdateNew[i],
                              records(c.UpdateNew[i], fresh(c.UpdateNew[i])))]
    IN  SelectSeq(teardown, LAMBDA x : x.args # <<>>)
        \o delete
        \o SelectSeq(create, LAMBDA x : x.key[3] # "TXT")
        \o SelectSeq(updateAdd, LAMBDA x : x.args # <<>>)

\* Every loop of the pass has been run through.
LoopsDone ==
    \/ pc = "wait1"
    \/ /\ pc = "done"
       /\ listing # "none"
       /\ \A i \in TaskIds : tasks[i].kind = "teardown" => ~tasks[i].err

\* C12: an entry that resolves to no zone starts no call and does not make
\* the pass fail (a pass fails only with a failed call), and the calls
\* started and the totals counted are those of the Change Set without the
\* entries that resolve to no zone.
C12_UnresolvedEntriesAreSkipped ==
    /\ \A i \in TaskIds : ZoneOf(EntryOf(tasks[i])) # Empty
    /\ (Returned /\ result = "err") => \E i \in TaskIds : Failed(i)
    /\ LoopsDone =>
          /\ [i \in TaskIds |-> CallOf(tasks[i])]
                = PlannedCalls(ResolvedOnly(changes), dryRun)
          /\ applied = PlannedTotals(ResolvedOnly(changes), filters)

\* A live pass with an entry that resolves to no zone and another whose
\* call was made has returned success.
C12_Witness ==
    /\ LiveSuccess
    /\ listing = "ok"
    /\ \E g \in {"Create", "Delete", "UpdateNew"} : \E i \in 1..Len(changes[g]) :
          ZoneOf(changes[g][i]) = Empty
    /\ \E i \in TaskIds : tasks[i].op # "none"

(***************************************************************************)
(* Properties of the timeout guard                                         *)
(***************************************************************************)
\* C13: once rootCtx has ended with a cancellation, ctx ends too, and it is
\* the guard that ends it unless the pass or the limit did; when rootCtx
\* has ended with its deadline the guard never ends ctx, which is live
\* until the limit of maxTimeout passes or the pass cancels it.
C13_GuardFollowsCancellationOnly ==
    /\ (gRoot = "canceled") ~> (gCtx # "live")
    /\ [](gBy = "guard" => gRoot = "canceled")
    /\ []((gRoot = "deadline exceeded" /\ gCtx # "live") =>
              \/ gBy = "pass"
              \/ gBy = "timer" /\ gNow >= maxTimeout)
    /\ []((gWatch = "exited" /\ gRoot = "canceled") => gCtx # "live")

\* The guard has ended ctx before the limit, after a cancellation.
C13_Witness ==
    /\ gBy = "guard"
    /\ gNow > 0 /\ gNow < maxTimeout

\* rootCtx has ended with its deadline, the guard has returned and ctx is
\* still live.
C13_WitnessDeadline ==
    /\ gRoot = "deadline exceeded"
    /\ gWatch = "exited"
    /\ gCtx = "live"

(***************************************************************************)
(* Properties of Records and of the bulk fetch                             *)
(***************************************************************************)
FetchReturned == fpc \in {"convert", "done"}

FailedFetches == {i \in 1..Len(fFetch) : fFetch[i] = "failed"}

\* C14: when the fetch of a zone has failed, AllZonesWithRecords returns an
\* error that names a zone whose fetch failed and no zone at all, it returns
\* only when the fetch of every zone has succeeded or failed, and Records
\* returns the error with no endpoint.
C14_OneFailedFetchFailsAll ==
    (FetchReturned /\ FailedFetches # {}) =>
        /\ fOut.failed
        /\ fOut.zones = <<>>
        /\ \E i \in FailedFetches : fOut.names = <<fRemote[i].Name>>
        /\ \A i \in 1..Len(fRemote) : fFetch[i] \in {"ok", "failed"}
        /\ fpc = "done" => (fReturn = "err" /\ fResult = <<>>)

\* Records has returned after the fetch of one zone failed and the fetch
\* of another, started before it ended, succeeded.
C14_Witness ==
    /\ fpc = "done"
    /\ FailedFetches # {}
    /\ \E i \in 1..Len(fFetch) : fFetch[i] = "ok" /\ fRemote[i].Records # <<>>

\* The records of supported type of all zones, in the order of the zones
\* and of the records in each.
SupportedRecords ==
    LET flat == {<<i, j>> : i \in 1..Len(fRemote), j \in 1..MaxRecords}
        at(k) == CHOOSE p \in flat :
                    /\ p[2] <= Len(fRemote[p[1]].Records)
                    /\ SupportedRecordType(fRemote[p[1]].Records[p[2]].Type)
                    /\ Cardinality({q \in flat :
                            /\ q[2] <= Len(fRemote[q[1]].Records)
                            /\ SupportedRecordType(fRemote[q[1]].Records[q[2]].Type)
                            /\ (q[1] < p[1] \/ (q[1] = p[1] /\ q[2] <= p[2]))}) = k
        n == Cardinality({q \in flat :
                /\ q[2] <= Len(fRemote[q[1]].Records)
                /\ SupportedRecordType(fRemote[q[1]].Records[q[2]].Type)})
    IN  [k \in 1..n |-> fRemote[at(k)[1]].Records[at(k)[2]]]

\* C15 as claimed: Records returns one endpoint for each record of supported
\* type, in the order of the zones and of their records, with the name, the
\* type, the TTL and the values of the record.
C15_OneEndpointPerSupportedRecord ==
    fReturn = "ok" =>
        /\ Len(fResult) = Len(SupportedRecords)
        /\ \A k \in 1..Len(fResult) :
              /\ fResult[k].DNSName = SupportedRecords[k].Name
              /\ fResult[k].RecordType = SupportedRecords[k].Type
              /\ fResult[k].RecordTTL = SupportedRecords[k].TTL
              /\ fResult[k].Targets = SupportedRecords[k].ShortAnswers

\* s without the dot it may end with.
Undotted(s) == IF s # <<>> /\ s[Len(s)] = Dot THEN SubSeq(s, 1, Len(s) - 1) ELSE s

\* C15 as amended: the endpoint has the type and the TTL of the record, and
\* its name and its values without the dot they may end with.
C15_OneNormalisedEndpointPerSupportedRecord ==
    fReturn = "ok" =>
        /\ Len(fResult) = Len(SupportedRecords)
        /\ \A k \in 1..Len(fResult) :
              /\ fResult[k].DNSName = Undotted(SupportedRecords[k].Name)
              /\ fResult[k].RecordType = SupportedRecords[k].Type
              /\ fResult[k].RecordTTL = SupportedRecords[k].TTL
              /\ Len(fResult[k].Targets) = Len(SupportedRecords[k].ShortAnswers)
              /\ \A j \in 1..Len(fResult[k].Targets) :
                    fResult[k].Targets[j]
                      = Undotted(SupportedRecords[k].ShortAnswers[j])

\* Records has returned the endpoints of two zones, one of which holds a
\* record of a type that is not supported and a record that ends in a dot.
C15_Witness ==
    /\ fReturn = "ok"
    /\ Len(fRemote) > 1
    /\ Len(fResult) > 1
    /\ \E i \in 1..Len(fRemote) :
          /\ \E j \in 1..Len(fRemote[i].Records) :
                ~SupportedRecordType(fRemote[i].Records[j].Type)
          /\ \E j \in 1..Len(fRemote[i].Records) :
                fRemote[i].Records[j].Name = NameInDotted

(***************************************************************************)
(* Properties of the two client calls                                      *)
(***************************************************************************)
\* No other goroutine of the pass works on the RRSet of task i.
AloneOnKey(i) == \A j \in TaskIds : tasks[j].key = tasks[i].key => j = i

Succeeded(i) == Finished(i) /\ ~tasks[i].err

\* The values, as strings, of the records of an RRSet.
StringsOf(rrSet) ==
    [k \in 1..Len(rrSet.records) |-> ContentToString(rrSet.records[k])]

\* C16: a DeleteRRSetRecord whose lookup answers that the RRSet does not
\* exist returns at once without error, sends no update and no delete, and
\* leaves the service as it is.
C16_DeleteOfAbsentIsNoOp ==
    [][\A i \in TaskIds :
          (/\ IsDeleteKind(tasks[i])
           /\ tasks[i].pc = "spawned"
           /\ tasks'[i].pc # "spawned"
           /\ remote[tasks[i].key].records = <<>>
           /\ ~ctxDone /\ failures' = failures)
          => /\ tasks'[i].pc = "done"
             /\ ~tasks'[i].err
             /\ tasks'[i].op = "none"
             /\ remote' = remote]_vars

\* A delete has returned success without a write on an RRSet that was and
\* is absent.
C16_Witness ==
    \E i \in TaskIds :
        /\ tasks[i].kind = "delete"
        /\ tasks[i].args # <<>>
        /\ Succeeded(i)
        /\ tasks[i].op = "none"
        /\ initial[tasks[i].key] = Absent
        /\ remote[tasks[i].key] = Absent

\* C17: after a DeleteRRSetRecord that returned success, with no other call
\* on the same RRSet in the pass, the RRSet holds the values it held before
\* whose string form is none of the contents, in their order; when none is
\* left the RRSet is gone, otherwise it is the same RRSet (same TTL).
C17_DeleteKeepsTheOtherValues ==
    \A i \in TaskIds :
        (IsDeleteKind(tasks[i]) /\ Succeeded(i) /\ AloneOnKey(i)) =>
            LET before == initial[tasks[i].key]
                after == remote[tasks[i].key]
                left == Without(StringsOf(before), Range(tasks[i].args))
            IN  /\ StringsOf(after) = left
                /\ left = <<>> => after = Absent
                /\ left # <<>> => after.ttl = before.ttl

\* A removal has taken one of two values out of an RRSet and kept the
\* other.
C17_Witness ==
    \E i \in TaskIds :
        /\ IsDeleteKind(tasks[i]) /\ Succeeded(i) /\ AloneOnKey(i)
        /\ tasks[i].op = "PUT"
        /\ Len(initial[tasks[i].key].records) > Len(remote[tasks[i].key].records)

\* C18: in live mode, once the create loop is through, every create entry
\* that resolves to a zone has exactly one AddZoneRRSet call, for its key,
\* with all its targets and its TTL, whatever its record type.
C18_EveryCreateEntryIsAdded ==
    (~dryRun /\ pc \in {"wait2", "updateAdd", "wait1", "done"} /\ listing # "none") =>
        \A n \in 1..Len(changes.Create) :
            LET e == changes.Create[n]
            IN  ZoneOf(e) # Empty =>
                  /\ Cardinality({i \in TaskIds : /\ tasks[i].kind = "create"
                                                   /\ tasks[i].entry = n}) = 1
                  /\ \A i \in TaskIds :
                        (tasks[i].kind = "create" /\ tasks[i].entry = n) =>
                            /\ tasks[i].key = EntryKey(e)
                            /\ tasks[i].ttl = e.RecordTTL
                            /\ tasks[i].args = [k \in 1..Len(e.Targets) |->
                                                  SetContent(e.RecordType, e.Targets[k])]

\* C19: after an AddZoneRRSet that found values and returned success, with
\* no other call on the same RRSet in the pass, every value held before is
\* held, every value passed in is held, and nothing else is.
C19_AddExtendsTheExistingValues ==
    \A i \in TaskIds :
        (/\ ~IsDeleteKind(tasks[i]) /\ Succeeded(i) /\ AloneOnKey(i)
         /\ initial[tasks[i].key].records # <<>>) =>
            LET before == initial[tasks[i].key].records
                after == remote[tasks[i].key].records
            IN  /\ Range(before) \subseteq Range(after)
                /\ Range(tasks[i].args) \subseteq Range(after)
                /\ Range(after) = Range(before) \cup Range(tasks[i].args)
                /\ Len(after) = Len(before) + Len(tasks[i].args)

\* A create has added values to an RRSet that held one.
C19_Witness ==
    \E i \in TaskIds :
        /\ tasks[i].kind = "create" /\ Succeeded(i) /\ AloneOnKey(i)
        /\ tasks[i].op = "PUT"
        /\ tasks[i].args # <<>>
        /\ initial[tasks[i].key].records # <<>>

\* C20 as claimed: after a live pass that returned success no target of a
\* delete entry that resolves to a zone is among the values of its RRSet.
C20_DeletedTargetsAreGoneAlways ==
    LiveSuccess =>
        \A n \in 1..Len(changes.Delete) :
            LET e == changes.Delete[n]
            IN  ZoneOf(e) # Empty =>
                    Range(e.Targets) \cap Range(ValuesOf(remote, EntryKey(e))) = {}

\* C20 as amended: that holds for a delete entry whose key no other create,
\* delete or updateNew entry has; and the call of such an entry whose RRSet
\* was absent fails only with a request that failed or was cancelled.
C20_DeletedTargetsAreGone ==
    /\ LiveSuccess =>
          \A n \in 1..Len(changes.Delete) :
              LET e == changes.Delete[n]
              IN  (ZoneOf(e) # Empty /\ KeyUnique("Delete", n)) =>
                      Range(e.Targets) \cap Range(ValuesOf(remote, EntryKey(e))) = {}
    /\ \A i \in TaskIds :
          (/\ tasks[i].kind = "delete"
           /\ KeyUnique("Delete", tasks[i].entry)
           /\ initial[tasks[i].key] = Absent
           /\ Failed(i)) => (failures > 0 \/ ctxDone)

\* A live pass has returned success after a delete that took its target out
\* of an RRSet, and a delete on an RRSet that was absent.
C20_Witness ==
    /\ LiveSuccess
    /\ \E i \in TaskIds :
          /\ tasks[i].kind = "delete" /\ tasks[i].op # "none"
          /\ KeyUnique("Delete", tasks[i].entry)
    /\ \E i \in TaskIds :
          /\ tasks[i].kind = "delete" /\ tasks[i].op = "none"
          /\ KeyUnique("Delete", tasks[i].entry)
          /\ initial[tasks[i].key] = Absent

(***************************************************************************)
(* Cancellation and errors of a pass                                       *)
(***************************************************************************)
Groups == {"gr1", "gr2"}

\* C22: when a goroutine of a group has returned an error while another
\* goroutine of that group has not returned yet, the context that other
\* goroutine passes to its requests is done.
C22_FirstFailureCancelsSiblings ==
    \A g \in Groups :
        (/\ firstErr[g] # 0
         /\ \E j \in GroupTasks(g) : tasks[j].pc # "done") => ctxDone

\* The messages name the record of the entry and each of the values.
NamesAll(msg, e, values) ==
    /\ \E k \in 1..Len(msg) : msg[k][2] = e.DNSName /\ msg[k][3] = e.RecordType
    /\ \A v \in Range(values) : \E k \in 1..Len(msg) : msg[k][4] = v

\* The values a goroutine hands to its client call, as strings.
Attempted(t) ==
    IF IsDeleteKind(t) THEN t.args
    ELSE [k \in 1..Len(t.args) |-> ContentToString(t.args[k])]

\* C26: the error ApplyChanges returns is that of the goroutine that was
\* first in its group to fail: it has the prefix of the stage, wraps the
\* error of the failed request, and names the DNS name, the record type and
\* every value of that goroutine.
C26_ReturnedErrorNamesTheFailedTask ==
    (Returned /\ result = "err") =>
        \E g \in Groups :
            /\ firstErr[g] # 0
            /\ LET t == tasks[firstErr[g]]
               IN  /\ errOut.stage = "gcore: apply changes"
                   /\ errOut.err.cause = t.cause
                   /\ t.cause # "none"
                   /\ errOut.err.msg = t.msg
                   /\ NamesAll(errOut.err.msg, EntryOf(t), Attempted(t))

\* C27: once ctx is done no request of the pass succeeds: the listing of
\* the zones does not, and the service is left as it is.
C27_EveryCallUnderTheGuardContext ==
    [][ctxDone => /\ listing' = "ok" => listing = "ok"
                  /\ remote' = remote]_vars

(***************************************************************************)
(* Properties of the update pairs                                          *)
(***************************************************************************)
\* The calls of the goroutines of the pass, as a set.
IssuedCalls == {CallOf(tasks[i]) : i \in TaskIds}

\* No goroutine will be started any more.
AllDispatched == LoopsDone \/ (Returned /\ listing = "none")

OldKeysDistinct ==
    \A i, j \in 1..Len(changes.UpdateOld) :
        SameKey(changes.UpdateOld[i], changes.UpdateOld[j]) => i = j

\* The Change Set with updateOld listed in the order p.
Reordered(c, p) ==
    [c EXCEPT !.UpdateOld = [i \in 1..Len(c.UpdateOld) |-> c.UpdateOld[p[i]]]]

Unmatched(e) ==
    \A i \in 1..Len(changes.UpdateOld) : ~SameKey(changes.UpdateOld[i], e)

\* C25: for an updateNew entry without an updateOld entry of its record
\* type and name the differ returns nothing in either direction, no removal
\* and no addition is started for it, and a pass fails only with a failed
\* call.
C25_UnmatchedUpdateIsNoChange ==
    /\ \A i \in 1..Len(changes.UpdateNew) :
          Unmatched(changes.UpdateNew[i]) =>
              /\ unexistingTargets(changes.UpdateNew[i], changes.UpdateOld, TRUE) = <<>>
              /\ unexistingTargets(changes.UpdateNew[i], changes.UpdateOld, FALSE) = <<>>
              /\ ~\E t \in TaskIds :
                     /\ tasks[t].kind \in {"teardown", "updateAdd"}
                     /\ tasks[t].entry = i
    /\ (Returned /\ result = "err") => \E t \in TaskIds : Failed(t)

\* A live pass with an updateNew entry of a known zone that has targets and
\* no counterpart has returned success after both of its update loops.
C25_Witness ==
    /\ LiveSuccess
    /\ listing = "ok"
    /\ \E i \in 1..Len(changes.UpdateNew) :
          /\ Unmatched(changes.UpdateNew[i])
          /\ ZoneOf(changes.UpdateNew[i]) # Empty
          /\ changes.UpdateNew[i].Targets # <<>>

(***************************************************************************)
(* Interleaving of the goroutines                                          *)
(***************************************************************************)
\* What one client call, made whole and without failure, leaves under its
\* key.
CallResult(c, rrSet) ==
    LET kept == KeptRecords(rrSet.records, c.args)
    IN  IF c.kind \in {"teardown", "delete"}
        THEN IF ~Found(rrSet) THEN rrSet
             ELSE IF kept = <<>> THEN Absent
             ELSE [ttl |-> rrSet.ttl, records |-> kept]
        ELSE IF Found(rrSet)
             THEN [ttl |-> c.ttl,
                   records |-> ExtendedRecords(c.args, rrSet.records)]
             ELSE IF c.args = <<>> THEN Absent
             ELSE [ttl |-> c.ttl, records |-> c.args]

\* The service after the calls were made one after the other.
RECURSIVE Serial(_, _)
Serial(state, calls) ==
    IF calls = <<>> THEN state
    ELSE LET c == Head(calls)
         IN  Serial([state EXCEPT ![c.key] = CallResult(c, state[c.key])],
                    Tail(calls))

DispatchedCalls == [i \in TaskIds |-> CallOf(tasks[i])]

\* The keys of create, delete and updateNew are pairwise distinct.
KeysDistinct ==
    \A g \in {"Create", "Delete", "UpdateNew"} :
        \A i \in 1..Len(changes[g]) : KeyUnique(g, i)

\* Every updateNew entry has its updateOld entry, and the service held the
\* targets of that entry under its key when the pass started.
UpdatesStartFromOld ==
    \A i \in 1..Len(changes.UpdateNew) :
        LET e == changes.UpdateNew[i]
            m == MatchIndex(e, changes.UpdateOld)
        IN  /\ ZoneOf(e) # Empty
            /\ m # 0
            /\ Range(ValuesOf(initial, EntryKey(e)))
                  = Range(changes.UpdateOld[m].Targets)

NoCallFailed == failures = 0 /\ \A i \in TaskIds : ~tasks[i].err

UpdateKeysHoldNew ==
    \A i \in 1..Len(changes.UpdateNew) :
        Range(ValuesOf(remote, EntryKey(changes.UpdateNew[i])))
            = Range(changes.UpdateNew[i].Targets)

Independent == Returned /\ KeysDistinct /\ UpdatesStartFromOld /\ NoCallFailed

\* C23 as claimed: with pairwise distinct keys, updates that start from the
\* targets of updateOld and no failed call, a pass leaves the service as the
\* calls made one after the other leave it, whatever the interleaving, and
\* every update key holds exactly the targets of its updateNew entry.
C23_InterleavingsAgreeAlways ==
    Independent =>
        /\ remote = Serial(initial, DispatchedCalls)
        /\ UpdateKeysHoldNew

\* C23 as amended: with pairwise distinct keys, updates that start from the
\* targets of updateOld and no failed call, a pass leaves the service as the
\* calls made one after the other leave it, whatever the interleaving, and
\* after a live pass every update key holds exactly the targets of its
\* updateNew entry.
C23_InterleavingsAgree ==
    Independent =>
        /\ remote = Serial(initial, DispatchedCalls)
        /\ ~dryRun => UpdateKeysHoldNew

\* A live pass has returned after the removal and the addition of an update
\* and the call of an entry with another key were all made.
C23_Witness ==
    /\ Independent /\ ~dryRun
    /\ Len(tasks) > 2
    /\ \E j, k \in TaskIds :
          /\ tasks[j].kind = "teardown" /\ tasks[j].op # "none"
          /\ tasks[k].kind = "updateAdd" /\ tasks[k].op # "none"
          /\ tasks[k].entry = tasks[j].entry

(***************************************************************************)
(* NewProvider                                                             *)
(***************************************************************************)
MaxUrlLen == 4

\* The characters of the URLs tried: a letter (also a hex digit), the
\* colon, the slash and the percent sign.
UrlChars == {"a", ":", "/", "%"}

RECURSIVE UrlsUpTo(_)
UrlsUpTo(n) ==
    IF n = 0 THEN {<<>>}
    ELSE LET shorter == UrlsUpTo(n - 1)
         IN  shorter \cup {Append(s, c) : s \in shorter, c \in UrlChars}

HasPrefix(s, prefix) ==
    Len(s) >= Len(prefix) /\ SubSeq(s, 1, Len(prefix)) = prefix

\* The first position of s that holds one of the characters; 0 if none.
IndexAny(s, chars) ==
    LET hits == {i \in 1..Len(s) : s[i] \in chars}
    IN  IF hits = {} THEN 0 ELSE CHOOSE i \in hits : \A j \in hits : i <= j

LastIndex(s, c) ==
    LET hits == {i \in 1..Len(s) : s[i] = c}
    IN  IF hits = {} THEN 0 ELSE CHOOSE i \in hits : \A j \in hits : i >= j

\* url.getScheme: the letters before the first colon are the scheme; a
\* colon at the start is an error; any other character first ends the
\* search without scheme.
getScheme(rawURL) ==
    LET i == IndexAny(rawURL, UrlChars \ {"a"})
    IN  IF i = 0 \/ rawURL[i] # ":"
        THEN [ok |-> TRUE, scheme |-> <<>>, rest |-> rawURL]
        ELSE IF i = 1
             THEN [ok |-> FALSE, scheme |-> <<>>, rest |-> <<>>]
             ELSE [ok |-> TRUE, scheme |-> SubSeq(rawURL, 1, i - 1),
                   rest |-> SubSeq(rawURL, i + 1, Len(rawURL))]

\* url.unescape finds no "%" that is not followed by two hex digits.
validEscapes(s) ==
    \A i \in 1..Len(s) :
        s[i] = "%" => (i + 2 <= Len(s) /\ s[i + 1] = "a" /\ s[i + 2] = "a")

\* url.validOptionalPort: nothing, or a colon followed by digits only.
validOptionalPort(port) == port = <<>> \/ port = <<":">>

\* url.parseHost: what follows the last colon is a port, and the escapes
\* of the host are valid.
parseHost(host) ==
    LET i == LastIndex(host, ":")
    IN  /\ i # 0 => validOptionalPort(SubSeq(host, i, Len(host)))
        /\ validEscapes(host)

\* url.Parse returns no error.
urlParse(rawURL) ==
    LET s == getScheme(rawURL)
        rest == s.rest
        slash == IndexAny(rest, {"/"})
        segment == IF slash = 0 THEN rest ELSE SubSeq(rest, 1, slash - 1)
        hasAuthority == /\ HasPrefix(rest, <<"/", "/">>)
                        /\ (s.scheme # <<>> \/ ~HasPrefix(rest, <<"/", "/", "/">>))
        afterSlashes == SubSeq(rest, 3, Len(rest))
        end == IndexAny(afterSlashes, {"/"})
        authority == IF end = 0 THEN afterSlashes
                     ELSE SubSeq(afterSlashes, 1, end - 1)
        path == IF end = 0 THEN <<>>
                ELSE SubSeq(afterSlashes, end, Len(afterSlashes))
    IN  IF ~s.ok THEN FALSE
        ELSE IF ~HasPrefix(rest, <<"/">>)
             THEN IF s.scheme # <<>> THEN TRUE
                  ELSE ":" \notin Range(segment) /\ validEscapes(rest)
             ELSE IF hasAuthority
                  THEN parseHost(authority) /\ validEscapes(path)
                  ELSE validEscapes(rest)

\* A provider that takes every token.
TokenMissingNever(apiKey) == FALSE

\* apiKey == ""
TokenMissing(apiKey) == apiKey = <<>>

\* gdns.NewClient: the client with the key and the default base URL.
NewClient(apiKey) == [apiKey |-> apiKey, BaseURL |-> <<"default">>]

\* setClientBaseURL: url.Parse(apiUrl) fails, or gives the base URL.
setClientBaseURL(client, apiUrl) ==
    IF urlParse(apiUrl)
    THEN [ok |-> TRUE, client |-> [client EXCEPT !.BaseURL = apiUrl]]
    ELSE [ok |-> FALSE, client |-> client]

NewProvider ==
    /\ npc = "input"
    /\ npc' = "returned"
    /\ IF TokenMissing(nApiKey)
       THEN nProvider' = <<>> /\ nErr' = "env"
       ELSE LET client == NewClient(nApiKey)
                set == setClientBaseURL(client, nApiUrl)
            IN  IF nApiUrl = <<>>
                THEN /\ nProvider' = <<[client |-> client, dryRun |-> nDryRun]>>
                     /\ nErr' = "none"
                ELSE IF set.ok
                     THEN /\ nProvider' = <<[client |-> set.client,
                                             dryRun |-> nDryRun]>>
                          /\ nErr' = "none"
                     ELSE nProvider' = <<>> /\ nErr' = "url"
    /\ UNCHANGED <<nApiUrl, nApiKey, nDryRun>>
    /\ UNCHANGED exceptProvider

ProviderInit ==
    /\ HandlerIdle
    /\ ZoneIdle
    /\ ApplyIdle
    /\ DiffIdle
    /\ GuardIdle
    /\ FetchIdle
    /\ ContentIdle
    /\ nApiUrl \in UrlsUpTo(MaxUrlLen)
    /\ nApiKey \in {<<>>, <<"k">>}
    /\ nDryRun \in BOOLEAN
    /\ nProvider = <<>>
    /\ nErr = "none"
    /\ npc = "input"

ProviderNext == NewProvider

SpecProvider == ProviderInit /\ [][ProviderNext]_vars

\* C21: NewProvider called with an empty token returns the error of the
\* environment and no provider; with a token and an API URL that is empty
\* or parses it returns no error and a provider that holds the token and
\* the dry-run flag.
C21_TokenIsRequired ==
    npc = "returned" =>
        /\ nApiKey = <<>> => (nErr = "env" /\ nProvider = <<>>)
        /\ (nApiKey # <<>> /\ (nApiUrl = <<>> \/ urlParse(nApiUrl))) =>
              /\ nErr = "none"
              /\ Len(nProvider) = 1
              /\ nProvider[1].client.apiKey = nApiKey
              /\ nProvider[1].dryRun = nDryRun

\* NewProvider has returned a provider for a token and an API URL with
\* scheme and host.
C21_Witness ==
    /\ npc = "returned"
    /\ nApiKey # <<>>
    /\ nApiUrl = <<"a", ":", "/", "/">>
    /\ nErr = "none"
    /\ Len(nProvider) = 1

(***************************************************************************)
(* A value through SetContent and back                                     *)
(***************************************************************************)
MaxValueLen == 7

ValueChars == {"0", "1", "m", Blank}
ContentTypes == {"A", "MX", "CAA", "SRV"}

RECURSIVE ValuesUpTo(_)
ValuesUpTo(n) ==
    IF n = 0 THEN {<<>>}
    ELSE LET shorter == ValuesUpTo(n - 1)
         IN  shorter \cup {Append(s, c) : s \in shorter, c \in ValueChars}

\* rr.SetContent(c.RecordType, content), as the create and update-add loops
\* call it.
ContentSet ==
    /\ cpc = "input"
    /\ cContent' = SetContent(cType, cValue)
    /\ cpc' = "set"
    /\ UNCHANGED <<cType, cValue, cString>>
    /\ UNCHANGED exceptContent

\* record.ContentToString(), as DeleteRRSetRecord calls it.
ContentRead ==
    /\ cpc = "set"
    /\ cString' = ContentToString(cContent)
    /\ cpc' = "read"
    /\ UNCHANGED <<cType, cValue, cContent>>
    /\ UNCHANGED exceptContent

ContentInit ==
    /\ HandlerIdle
    /\ ZoneIdle
    /\ ApplyIdle
    /\ DiffIdle
    /\ GuardIdle
    /\ FetchIdle
    /\ ProviderIdle
    /\ cType \in ContentTypes
    /\ cValue \in ValuesUpTo(MaxValueLen)
    /\ cContent = <<>>
    /\ cString = <<>>
    /\ cpc = "input"

ContentNext == ContentSet \/ ContentRead

SpecContent == ContentInit /\ [][ContentNext]_vars

\* C28: for every record type and every target, the string form of the
\* content SetContent builds from the target is the target.
C28_ValueRoundTrips ==
    cpc = "read" => cString = cValue

(***************************************************************************)
(* Soundness of the zone resolver                                          *)
(***************************************************************************)
NoEmptyLabel(name) == \A i \in 1..Len(Labels(name)) : Labels(name)[i] # <<>>

KnownZone(zone) == \E i \in 1..Len(zZones) : zone = Trim(zZones[i])

\* C29 as claimed: a zone the resolver returns is the trimmed name of a
\* listed zone, a suffix of the trimmed name on a label boundary, and has at
\* least two labels; a name of fewer than two labels resolves to no zone.
C29_ResolverIsSoundAlways ==
    zpc = "resolved" =>
        /\ zResult # Empty =>
              /\ KnownZone(zResult)
              /\ zResult \in LabelSuffixes(zName, 1)
              /\ Len(Split(zResult)) >= 2
        /\ Len(Labels(zName)) < 2 => zResult = Empty

\* C29 as amended: a zone the resolver returns is the trimmed name of a
\* listed zone and a suffix of the trimmed name on a label boundary, and
\* for a name without empty label it has at least two labels; a name of
\* fewer than two labels resolves to no zone.
C29_ResolverIsSound ==
    zpc = "resolved" =>
        /\ zResult # Empty =>
              /\ KnownZone(zResult)
              /\ zResult \in LabelSuffixes(zName, 1)
              /\ NoEmptyLabel(zName) => Len(Split(zResult)) >= 2
        /\ Len(Labels(zName)) < 2 => zResult = Empty

\* A name written with a dot at its end has resolved to a zone of two
\* labels while a zone of one label that ends the name is listed too.
C29_Witness ==
    /\ zpc = "resolved"
    /\ zName # Trim(zName)
    /\ NoEmptyLabel(zName)
    /\ zResult # Empty
    /\ Len(Split(zResult)) = 2
    /\ \E i \in 1..Len(zZones) : Len(Split(zZones[i])) = 1
                                 /\ zZones[i] \in LabelSuffixes(zName, 1)

(***************************************************************************)
(* The places the goroutines of the bulk fetch write                       *)
(***************************************************************************)
\* C30: a step changes the list of zones at a position only when the
\* goroutine of the zone at that position stores its detail there, and
\* then at no other position; a position is written by that one goroutine
\* only, and on success position i of the list returned holds the detail
\* of the i-th zone listed.
C30_EachFetchWritesItsOwnPosition ==
    /\ [][\A k \in 1..Len(fZones) :
             fZones'[k] # fZones[k] =>
                 /\ fFetch[k] = "running" /\ fFetch'[k] = "ok"
                 /\ fZones'[k] = fRemote[k]
                 /\ \A j \in 1..Len(fZones) : j # k => fZones'[j] = fZones[j]]_vars
    /\ []((FetchReturned /\ ~fOut.failed) =>
             /\ Len(fOut.zones) = Len(fRemote)
             /\ \A i \in 1..Len(fRemote) : fOut.zones[i] = fRemote[i])

\* The fetch of two zones with different records has returned with success,
\* every goroutine having stored its detail.
C30_Witness ==
    /\ FetchReturned /\ ~fOut.failed
    /\ Len(fRemote) = 2
    /\ fRemote[1].Records # <<>> /\ fRemote[2].Records # <<>>
    /\ fRemote[1].Records # fRemote[2].Records
    /\ \A i \in 1..Len(fFetch) : fFetch[i] = "ok"

(***************************************************************************)
(* Properties of the return of ApplyChanges                                *)
(***************************************************************************)
\* C31: when ApplyChanges has returned, with success or with an error, every
\* goroutine it dispatched has returned: none is still to start its client
\* call and none is between its lookup and its write.
C31_ReturnJoinsEveryTask ==
    Returned => \A i \in TaskIds : Finished(i)

\* A Change Set with nothing to create, nothing to delete and updateNew
\* equal to updateOld.
NoChanges(c) == c.Create = <<>> /\ c.Delete = <<>> /\ c.UpdateNew = c.UpdateOld

\* C32: ApplyChanges called with a Change Set that has no changes returns
\* success in its first step, leaving everything else as it was, and when it
\* has returned no zone listing was made, no goroutine was dispatched, no
\* request failed, the service is as it was and no guarded context was made
\* or cancelled.
C32_NoChangesReturnsAtOnce ==
    /\ [](Returned /\ NoChanges(changes) =>
            /\ result = "ok"
            /\ listing = "none" /\ filters = <<>>
            /\ tasks = <<>>
            /\ failures = 0
            /\ remote = initial
            /\ ~ctxDone)
    /\ [][(pc = "start" /\ NoChanges(changes)) =>
            /\ pc' = "done" /\ result' = "ok"
            /\ UNCHANGED <<changes, remote, listing, filters, tasks, applied,
                           ctxDone, failures, firstErr, errOut>>]_vars

\* A pass has returned on a Change Set whose only entries are an update pair
\* with updateNew equal to updateOld.
C32_Witness ==
    /\ Returned /\ result = "ok"
    /\ NoChanges(changes) /\ changes.UpdateNew # <<>>
    /\ listing = "none" /\ tasks = <<>>

(***************************************************************************)
(* Properties of the TTL of an updated RRSet                               *)
(***************************************************************************)
\* The entry is the only one of the Change Set on its name and type.
OnlyEntryOnKey(e) ==
    \A g \in {"Create", "Delete", "UpdateNew"} : \A j \in 1..Len(changes[g]) :
        SameKey(changes[g][j], e) => changes[g][j] = e

\* C33: after a live pass that returns success, the RRSet the service holds
\* for an updateNew entry whose name resolves to a zone, when no other entry
\* of the Change Set is on its name and type, has the recordTTL of the entry.
C33_UpdateSetsTTL ==
    LiveSuccess =>
        \A i \in 1..Len(changes.UpdateNew) :
            LET e == changes.UpdateNew[i] IN
            (/\ ZoneOf(e) # Empty
             /\ OnlyEntryOnKey(e)
             /\ remote[EntryKey(e)].records # <<>>) =>
                remote[EntryKey(e)].ttl = e.RecordTTL

(***************************************************************************)
(* Properties of concurrent AddZoneRRSet calls                             *)
(***************************************************************************)
IsAddKind(t) == t.kind \in {"create", "updateAdd"}

\* The goroutines i and j are the only ones on their key, both call
\* AddZoneRRSet and both have returned without error.
BothAdded(i, j) ==
    /\ i # j
    /\ IsAddKind(tasks[i]) /\ IsAddKind(tasks[j])
    /\ tasks[i].key = tasks[j].key
    /\ \A k \in TaskIds : tasks[k].key = tasks[i].key => k \in {i, j}
    /\ Succeeded(i) /\ Succeeded(j)

\* C34: when two AddZoneRRSet calls on the same zone, name and type have
\* both returned without error and no other call was made on that RRSet, the
\* service holds every value of the one and every value of the other.
C34_ConcurrentAddsKeepBoth ==
    ~dryRun =>
        \A i, j \in TaskIds :
            BothAdded(i, j) =>
                {ContentToString(r) :
                    r \in Range(tasks[i].args) \cup Range(tasks[j].args)}
                    \subseteq Range(ValuesOf(remote, tasks[i].key))

(***************************************************************************)
(* Properties of the goroutine of the timeout guard                        *)
(***************************************************************************)
\* C35: the goroutine started by the guard always ends: it ends once rootCtx
\* has ended or ctx has ended, by the cancel of the pass or by the limit of
\* maxTimeout, and it ends for no other reason.
C35_WatcherAlwaysExits ==
    /\ <>(gWatch = "exited")
    /\ (gRoot # "live" \/ gCtx # "live") ~> (gWatch = "exited")
    /\ [](gWatch = "exited" => (gRoot # "live" \/ gCtx # "live"))

\* The goroutine has ended on the limit of maxTimeout alone: rootCtx is
\* live and the pass has not cancelled.
C35_Witness ==
    /\ gWatch = "exited"
    /\ gRoot = "live"
    /\ gBy = "timer" /\ gNow >= maxTimeout

(***************************************************************************)
(* The handler of POST /records                                            *)
(***************************************************************************)
\* The statuses of net/http the handler writes.
StatusNoContent == 204
StatusBadRequest == 400
StatusNotAcceptable == 406
StatusUnsupportedMediaType == 415
StatusInternalServerError == 500

\* A header value is a string held in pieces: the literal texts of the code
\* are one piece each, a version is held character by character.
mediaTypeFormat == <<"application/external.dns.webhook+json;">>
supportedMediaVersions == <<"1">>

\* mediaTypeVersion: mediaTypeFormat + "version=" + v
mediaTypeVersion(v) == mediaTypeFormat \o <<"version=">> \o v

\* mediaType.Is
Is(m, headerValue) == m = headerValue

\* checkAndGetMediaTypeHeaderValue: whether it returns an error.
checkAndGetMediaTypeHeaderValue(value) ==
    LET versions == SplitOn(supportedMediaVersions, ",")
    IN  ~\E i \in 1..Len(versions) : Is(mediaTypeVersion(versions[i]), value)

\* headerCheck: the status it writes, 0 when it writes none and returns nil.
headerCheck(isContentType, contentType, accept) ==
    LET header == IF isContentType THEN contentType ELSE accept
    IN  IF Len(header) = 0 THEN StatusNotAcceptable
        ELSE IF checkAndGetMediaTypeHeaderValue(header)
             THEN StatusUnsupportedMediaType
             ELSE 0

acceptHeaderCheck(contentType, accept) == headerCheck(FALSE, contentType, accept)

contentTypeHeaderCheck(contentType, accept) ==
    headerCheck(TRUE, contentType, accept)

\* The header values of a request: none, the supported media type, the media
\* type of another version, another media type.
Headers ==
    {<<>>, mediaTypeVersion(<<"1">>), mediaTypeVersion(<<"2">>),
     <<"application/json">>}

NoChangeSet ==
    [Create |-> <<>>, Delete |-> <<>>, UpdateOld |-> <<>>, UpdateNew |-> <<>>]

\* The bodies of a request: one that json.Decode rejects, and the JSON
\* documents of the Change Sets.
Bodies ==
    {[valid |-> FALSE, changes |-> NoChangeSet]}
        \cup {[valid |-> TRUE, changes |-> c] : c \in ChangeSets}

HandlerInit ==
    /\ ZoneIdle
    /\ DiffIdle
    /\ GuardIdle
    /\ FetchIdle
    /\ ProviderIdle
    /\ ContentIdle
    /\ hContentType \in Headers
    /\ hAccept \in {<<>>, mediaTypeVersion(<<"1">>)}
    /\ hBody \in Bodies
    /\ hStatus = 0
    /\ hpc = "check"
    /\ dryRun \in BOOLEAN
    /\ changes = NoChangeSet
    /\ remote \in RemoteStates
    /\ initial = remote
    /\ pc = "idle"
    /\ idx = 1
    /\ listing = "none"
    /\ filters = <<>>
    /\ tasks = <<>>
    /\ applied = [created |-> 0, deleted |-> 0, updated |-> 0]
    /\ result = "none"
    /\ ctxDone = FALSE
    /\ failures = 0
    /\ firstErr = [gr1 |-> 0, gr2 |-> 0]
    /\ errOut = <<>>

\* contentTypeHeaderCheck(w, r): on an error the status is written and the
\* handler returns.
CheckHeader ==
    /\ hpc = "check"
    /\ LET status == contentTypeHeaderCheck(hContentType, hAccept)
       IN  IF status # 0
           THEN hStatus' = status /\ hpc' = "done"
           ELSE hStatus' = hStatus /\ hpc' = "decode"
    /\ UNCHANGED <<hContentType, hAccept, hBody>>
    /\ UNCHANGED applyVars
    /\ UNCHANGED exceptHandler

\* json.NewDecoder(r.Body).Decode(&changes): 400 on an error, else the call
\* p.ApplyChanges(ctx, &changes) is made.
DecodeBody ==
    /\ hpc = "decode"
    /\ IF ~hBody.valid
       THEN /\ hStatus' = StatusBadRequest
            /\ hpc' = "done"
            /\ UNCHANGED <<changes, pc>>
       ELSE /\ hStatus' = hStatus
            /\ hpc' = "apply"
            /\ changes' = hBody.changes
            /\ pc' = "start"
    /\ UNCHANGED <<hContentType, hAccept, hBody>>
    /\ UNCHANGED <<dryRun, remote, initial, idx, listing, filters, tasks,
                   applied, result, ctxDone, failures, firstErr, errOut>>
    /\ UNCHANGED exceptHandler

\* ApplyChanges has returned: 500 on an error, 204 otherwise.
Respond ==
    /\ hpc = "apply"
    /\ pc = "done"
    /\ hStatus' = IF result = "err" THEN StatusInternalServerError
                  ELSE StatusNoContent
    /\ hpc' = "done"
    /\ UNCHANGED <<hContentType, hAccept, hBody>>
    /\ UNCHANGED applyVars
    /\ UNCHANGED exceptHandler

HandlerNext ==
    \/ CheckHeader
    \/ DecodeBody
    \/ Respond
    \/ Next

SpecHandler == HandlerInit /\ [][HandlerNext]_vars

(***************************************************************************)
(* Properties of the handler of POST /records                              *)
(***************************************************************************)
\* The Content-Type of the request is the media type of version 1.
ContentTypeOk ==
    hContentType = <<"application/external.dns.webhook+json;", "version=", "1">>

ApplyCalled == pc # "idle"

\* C36: the answer of POST /records is 204 exactly when the Content-Type is
\* the supported media type, the body decodes and ApplyChanges, called with
\* the decoded Change Set, has returned no error; it is 500 when ApplyChanges
\* has returned an error and 400 when the body does not decode; ApplyChanges
\* is never called when the body does not decode or the Content-Type is
\* refused, whatever the Accept header is.
C36_StatusFollowsOutcome ==
    /\ hpc = "done" =>
          /\ hStatus = 204 <=>
                (ContentTypeOk /\ hBody.valid /\ Returned /\ result = "ok")
          /\ hStatus = 500 <=>
                (ContentTypeOk /\ hBody.valid /\ Returned /\ result = "err")
          /\ hStatus = 400 <=> (ContentTypeOk /\ ~hBody.valid)
          /\ hStatus \in {406, 415} <=> ~ContentTypeOk
    /\ (~ContentTypeOk \/ ~hBody.valid) => ~ApplyCalled
    /\ ApplyCalled => changes = hBody.changes
    /\ hpc \in {"check", "decode", "apply"} => hStatus = 0

\* A request has been answered 204 after a live pass that changed what the
\* service holds.
C36_Witness ==
    /\ hpc = "done" /\ hStatus = 204
    /\ ~dryRun /\ remote # initial
    /\ hAccept = <<>>

\* A request has been answered 500 after a pass that returned an error.
C36_WitnessError ==
    /\ hpc = "done" /\ hStatus = 500
    /\ result = "err"

====
